---- MODULE Spec2Model ----
(***************************************************************************)
(* A model of the SAGA book reader: the plain-text chapter segmenter       *)
(* (services/parser.ts), the gist-backed chunked library storage           *)
(* (services/gist.ts, services/storage.ts) and the debounced save of the   *)
(* application component (App.tsx).                                        *)
(*                                                                         *)
(* Strings are sequences of one-character strings, so that split, trim     *)
(* and toUpperCase are computed character by character.                    *)
(***************************************************************************)
EXTENDS Integers, Sequences, FiniteSets, TLC

VARIABLES
    \* ---- parseChapters (services/parser.ts)
    text,            \* the raw text handed to parseChapters
    lines,           \* processedText.split('\n')
    i,               \* loop index (0-based, as in the code)
    currentChapter,  \* << >> for null, or <<[title, content]>>
    chapters,        \* the output array
    ppc,             \* position in parseChapters: "start", "loop", "done"
    \* ---- one save and one load of a library (services/gist.ts)
    library,         \* the books handed to createSagaGist
    bundle,          \* << >> while no gist exists, or <<files>>
    loaded,          \* << >> before the load, or <<result of loadBooksFromGist>>
    \* ---- the library service of two sessions over the gist API
    gists,           \* the user's SAGA gists, in order of creation: files each
    ops,             \* the storage calls in flight or returned, by slot
    sessionBook,     \* per session: << >> or <<the book the App holds>>
    now,             \* Date.now()
    history,         \* the calls started so far: [kind, sess] (history)
    lastWrite,       \* << >> or <<the library of the latest remote write>> (history)
    quietCleared,    \* a clearHistory has returned and no save started since (history)
    \* ---- the application component and its debounced save (App.tsx)
    currentBook,     \* << >> for null, or <<the open book>>
    processingChapterIndex,  \* -1 for null
    saveTimerRef,    \* saveTimerRef.current: 0 for null, or a timer id
    timers,          \* the pending window timers: [id, due, book]
    streams,         \* the summary streams in flight: [index, chapter]
    stored,          \* the books of the library service, by id
    clock,           \* milliseconds since the component was mounted
    calls,           \* the storage.updateBook calls started so far (history)
    bursts,          \* the bursts of updates so far (history)
    \* ---- one call of getFileContent (services/gist.ts)
    fileArg,         \* << >> for undefined, or <<[content, truncated, raw_url]>>
    fetchOk,         \* whether the first and the second fetch of raw_url succeed
    fileResult,      \* << >> before the return, or <<what was returned>>
    \* ---- one call of cleanBookData (services/storage.ts)
    bookArg,         \* << >>, or <<the book handed to cleanBookData>>
    cleanResult,     \* << >> before the return, or <<the book returned>>
    \* ---- one call of extractBookTitle (services/parser.ts) on text
    bookTitle,       \* << >> before the return, or <<the title returned>>
    \* ---- one loadBooksFromGist or saveBooksToGist over a failing transport
    gcall,           \* the call: [kind, pc, gistId]
    requests,        \* the requests sent so far: [req, outcome]
    errors,          \* the errors the caller has received
    \* ---- the life of the App component
    mounted          \* FALSE once the cleanup of its effect has run

parserVars == <<text, lines, i, currentChapter, chapters, ppc>>
roundTripVars == <<library, bundle, loaded>>

storeVars == <<gists, ops, sessionBook, now, history, lastWrite, quietCleared>>

appVars == <<currentBook, processingChapterIndex, saveTimerRef, timers, streams,
            stored, clock, calls, bursts>>

getFileVars == <<fileArg, fetchOk, fileResult>>
cleanVars == <<bookArg, cleanResult>>
titleVars == <<bookTitle>>
transportVars == <<gcall, requests, errors>>
mountVars == <<mounted>>

notParserVars == <<roundTripVars, storeVars, appVars, getFileVars, cleanVars, titleVars, transportVars, mountVars>>
notRoundTripVars == <<parserVars, storeVars, appVars, getFileVars, cleanVars, titleVars, transportVars, mountVars>>
notStoreVars == <<parserVars, roundTripVars, appVars, getFileVars, cleanVars, titleVars, transportVars, mountVars>>
notAppVars == <<parserVars, roundTripVars, storeVars, getFileVars, cleanVars, titleVars, transportVars, mountVars>>
notGetFileVars == <<parserVars, roundTripVars, storeVars, appVars, cleanVars,
                    titleVars, transportVars, mountVars>>
notCleanVars == <<parserVars, roundTripVars, storeVars, appVars, getFileVars,
                  titleVars, transportVars, mountVars>>
notTitleVars == <<roundTripVars, storeVars, appVars, getFileVars, cleanVars,
                  transportVars, mountVars>>
notTransportVars == <<parserVars, storeVars, appVars, getFileVars, cleanVars,
                      titleVars, mountVars>>

vars == <<parserVars, roundTripVars, storeVars, appVars, getFileVars, cleanVars, titleVars, transportVars, mountVars>>

\* the parts of the state a specification does not use stay as they are here
IdleParser ==
    /\ text = <<>> /\ lines = <<>> /\ i = 0
    /\ currentChapter = <<>> /\ chapters = <<>> /\ ppc = "idle"

IdleRoundTrip == library = <<>> /\ bundle = <<>> /\ loaded = <<>>

IdleStore ==
    /\ gists = <<>> /\ ops = <<>> /\ sessionBook = <<>> /\ now = 0
    /\ history = <<>> /\ lastWrite = <<>> /\ quietCleared = FALSE

IdleApp ==
    /\ currentBook = <<>> /\ processingChapterIndex = -1 /\ saveTimerRef = 0
    /\ timers = {} /\ streams = {} /\ stored = <<>> /\ clock = 0
    /\ calls = <<>> /\ bursts = <<>>

IdleGetFile == fileArg = <<>> /\ fetchOk = <<>> /\ fileResult = <<>>

IdleClean == bookArg = <<>> /\ cleanResult = <<>>

IdleTitle == bookTitle = <<>>

IdleMount == mounted = TRUE

IdleTransport ==
    /\ gcall = [kind |-> "none", pc |-> "idle", gistId |-> 0]
    /\ requests = <<>> /\ errors = <<>>

(***************************************************************************)
(* Characters and strings                                                  *)
(***************************************************************************)
NL == "\n"

LowerLetters == <<"a","b","c","d","e","f","g","h","i","j","k","l","m",
                  "n","o","p","q","r","s","t","u","v","w","x","y","z">>
UpperLetters == <<"A","B","C","D","E","F","G","H","I","J","K","L","M",
                  "N","O","P","Q","R","S","T","U","V","W","X","Y","Z">>

Range(f) == {f[k] : k \in DOMAIN f}

\* String.prototype.trim strips white space and line terminators at both ends
WhiteSpace == {" ", "\t", "\r", "\n"}

RECURSIVE TrimStart(_)
TrimStart(s) ==
    IF s # <<>> /\ Head(s) \in WhiteSpace THEN TrimStart(Tail(s)) ELSE s

RECURSIVE TrimEnd(_)
TrimEnd(s) ==
    IF s # <<>> /\ s[Len(s)] \in WhiteSpace
    THEN TrimEnd(SubSeq(s, 1, Len(s) - 1)) ELSE s

Trim(s) == TrimEnd(TrimStart(s))

\* A letter outside a-z and A-Z: the Cyrillic ghe, small (U+0433) and
\* capital (U+0413).  The module text is ASCII, so the two characters are
\* written by their code points.
SmallGhe == "<U+0433>"
CapitalGhe == "<U+0413>"

\* String.prototype.toUpperCase, character by character
UpperChar(c) ==
    IF \E k \in DOMAIN LowerLetters : LowerLetters[k] = c
    THEN UpperLetters[CHOOSE k \in DOMAIN LowerLetters : LowerLetters[k] = c]
    ELSE IF c = SmallGhe THEN CapitalGhe
    ELSE c

ToUpperCase(s) == [k \in DOMAIN s |-> UpperChar(s[k])]

\* text.split('\n'): the pieces between the newline characters, taken one
\* line at a time (the piece before the first newline, then the rest)
RECURSIVE Split(_)
Split(s) ==
    IF \A k \in DOMAIN s : s[k] # NL THEN <<s>>
    ELSE LET first == CHOOSE k \in DOMAIN s :
                          s[k] = NL /\ \A j \in 1..(k - 1) : s[j] # NL
         IN  <<SubSeq(s, 1, first - 1)>> \o Split(SubSeq(s, first + 1, Len(s)))

(***************************************************************************)
(* services/parser.ts                                                      *)
(***************************************************************************)
BANNED_TITLES ==
    { <<"C","O","N","T","E","N","T","S">>,
      <<"T","A","B","L","E"," ","O","F"," ","C","O","N","T","E","N","T","S">>,
      <<"C","O","V","E","R">>,
      <<"T","I","T","L","E">>,
      <<"A","U","T","H","O","R">>,
      <<"C","O","P","Y","R","I","G","H","T">>,
      <<"D","E","D","I","C","A","T","I","O","N">>,
      <<"P","U","B","L","I","S","H","I","N","G"," ","H","I","S","T","O","R","Y">>,
      <<"A","C","K","N","O","W","L","E","D","G","M","E","N","T","S">> ,
      <<"E","P","I","G","R","A","P","H">> }

TitleLenLimit == 50

\* /[A-Z]/.test(s)
HasUpperLetter(s) == \E k \in DOMAIN s : s[k] \in Range(UpperLetters)

\* /^[0-9\s.,!?-]+$/.test(s)
DigitsPunct == {"0","1","2","3","4","5","6","7","8","9",
                ".", ",", "!", "?", "-"} \cup WhiteSpace
OnlyDigitsPunct(s) == s # <<>> /\ \A k \in DOMAIN s : s[k] \in DigitsPunct

\* mutant: the banned headings are not excluded
isPotentiallyTitle_NoBanned(t) ==
    /\ Len(t) > 0
    /\ Len(t) < TitleLenLimit
    /\ t = ToUpperCase(t)
    /\ HasUpperLetter(t)
    /\ ~OnlyDigitsPunct(t)

isPotentiallyTitle(trimmedLine) ==
    /\ Len(trimmedLine) > 0
    /\ Len(trimmedLine) < TitleLenLimit
    /\ trimmedLine = ToUpperCase(trimmedLine)
    /\ HasUpperLetter(trimmedLine)
    /\ ~OnlyDigitsPunct(trimmedLine)
    /\ trimmedLine \notin BANNED_TITLES

\* mutant: only three lines are looked back at
hasFourEmptyLinesBefore_Three(ls, k) ==
    /\ k >= 4
    /\ Trim(ls[k]) = <<>>
    /\ Trim(ls[k - 1]) = <<>>
    /\ Trim(ls[k - 2]) = <<>>

\* ls is the array of lines, k the 0-based index of the line looked at
hasFourEmptyLinesBefore(ls, k) ==
    /\ k >= 4
    /\ Trim(ls[k]) = <<>>        \* lines[i - 1]
    /\ Trim(ls[k - 1]) = <<>>    \* lines[i - 2]
    /\ Trim(ls[k - 2]) = <<>>    \* lines[i - 3]
    /\ Trim(ls[k - 3]) = <<>>    \* lines[i - 4]

\* the line parseChapters looks at in the current loop iteration
line == lines[i + 1]
trimmedLine == Trim(line)
isBoundary == isPotentiallyTitle(trimmedLine) /\ hasFourEmptyLinesBefore(lines, i)

\* mutant: the content is pushed untrimmed
Finalized_NoTrim(ch) == [title |-> ch.title, content |-> ch.content]

\* { ...currentChapter, content: currentChapter.content.trim() }
Finalized(ch) == [title |-> ch.title, content |-> Trim(ch.content)]

\* if (!text) return chapters;  else prepend the four newlines and split
ParseStart ==
    /\ ppc = "start"
    /\ IF text = <<>>
       THEN /\ ppc' = "done"
            /\ lines' = <<>>
       ELSE /\ ppc' = "loop"
            /\ lines' = Split(<<NL, NL, NL, NL>> \o text)
    /\ i' = 0
    /\ UNCHANGED <<text, currentChapter, chapters, notParserVars>>

\* mutant: an open chapter without content is dropped at the next title
ParseTitleLine_DropsEmpty ==
    /\ ppc = "loop" /\ i < Len(lines)
    /\ isBoundary
    /\ chapters' = IF currentChapter # <<>> /\ Trim(currentChapter[1].content) # <<>>
                   THEN Append(chapters, Finalized(currentChapter[1]))
                   ELSE chapters
    /\ currentChapter' = <<[title |-> trimmedLine, content |-> <<>>]>>
    /\ i' = i + 1
    /\ UNCHANGED <<text, lines, ppc, notParserVars>>

\* if (isPotentiallyTitle && hasFourEmptyLinesBefore) { ... }
ParseTitleLine ==
    /\ ppc = "loop" /\ i < Len(lines)
    /\ isBoundary
    /\ chapters' = IF currentChapter # <<>>
                   THEN Append(chapters, Finalized(currentChapter[1]))
                   ELSE chapters
    /\ currentChapter' = <<[title |-> trimmedLine, content |-> <<>>]>>
    /\ i' = i + 1
    /\ UNCHANGED <<text, lines, ppc, notParserVars>>

\* else if (currentChapter) { currentChapter.content += line + '\n'; }
ParseContentLine ==
    /\ ppc = "loop" /\ i < Len(lines)
    /\ ~isBoundary
    /\ currentChapter # <<>>
    /\ currentChapter' = <<[title   |-> currentChapter[1].title,
                            content |-> currentChapter[1].content \o line \o <<NL>>]>>
    /\ i' = i + 1
    /\ UNCHANGED <<text, lines, chapters, ppc, notParserVars>>

\* mutant: text before the first title opens an untitled chapter
ParseSkipLine_OpensChapter ==
    /\ ppc = "loop" /\ i < Len(lines)
    /\ ~isBoundary
    /\ currentChapter = <<>>
    /\ currentChapter' = <<[title |-> <<>>, content |-> line \o <<NL>>]>>
    /\ i' = i + 1
    /\ UNCHANGED <<text, lines, chapters, ppc, notParserVars>>

\* Any content before the first valid chapter title is ignored.
ParseSkipLine ==
    /\ ppc = "loop" /\ i < Len(lines)
    /\ ~isBoundary
    /\ currentChapter = <<>>
    /\ i' = i + 1
    /\ UNCHANGED <<text, lines, currentChapter, chapters, ppc, notParserVars>>

\* after the loop: add the last chapter if it exists and has content
ParseFinish ==
    /\ ppc = "loop" /\ i = Len(lines)
    /\ chapters' = IF currentChapter # <<>> /\ Trim(currentChapter[1].content) # <<>>
                   THEN Append(chapters, Finalized(currentChapter[1]))
                   ELSE chapters
    /\ ppc' = "done"
    /\ UNCHANGED <<text, lines, i, currentChapter, notParserVars>>

(***************************************************************************)
(* Input texts of the parser specification: a text is made of at most      *)
(* MaxPieces pieces, each a group of lines, joined by newlines.            *)
(***************************************************************************)
MaxPieces == 5

Pieces ==
    { << <<>>, <<>>, <<>>, <<>> >>,            \* four empty lines
      << <<>>, <<" ">>, <<>> >>,                \* three blank lines, one of spaces
      << <<" ", "A", " ">> >>,                  \* a title with surrounding spaces
      << <<"B">> >>,                            \* a title
      << <<"b", " ">> >>,                       \* body text
      << <<"C","O","N","T","E","N","T","S">> >> }  \* a banned heading

RECURSIVE Flatten(_)
Flatten(ps) == IF ps = <<>> THEN <<>> ELSE Head(ps) \o Flatten(Tail(ps))

RECURSIVE JoinLines(_)
JoinLines(ls) ==
    IF ls = <<>> THEN <<>>
    ELSE IF Len(ls) = 1 THEN ls[1]
    ELSE ls[1] \o <<NL>> \o JoinLines(Tail(ls))

PieceSeqs == UNION {[1..n -> Pieces] : n \in 0..MaxPieces}

Texts == {JoinLines(Flatten(ps)) : ps \in PieceSeqs}

InitParser ==
    /\ text \in Texts
    /\ lines = <<>>
    /\ i = 0
    /\ currentChapter = <<>>
    /\ chapters = <<>>
    /\ ppc = "start"
    /\ IdleRoundTrip /\ IdleStore /\ IdleApp /\ IdleGetFile /\ IdleClean
    /\ IdleTitle /\ IdleTransport /\ IdleMount

NextParser ==
    \/ ParseStart
    \/ ParseTitleLine
    \/ ParseContentLine
    \/ ParseSkipLine
    \/ ParseFinish

SpecParser == InitParser /\ [][NextParser]_vars

(***************************************************************************)
(* The segmenter's properties, stated on the input text.                   *)
(***************************************************************************)
\* the lines of the text, counting the four prepended blank lines
InputLines == Split(<<NL, NL, NL, NL>> \o text)

Letters == Range(LowerLetters) \cup Range(UpperLetters)

BlankLine(l) == \A k \in DOMAIN l : l[k] \in WhiteSpace

\* short, no lowercase letter, at least one letter, not a banned heading
TitleCandidate(l) ==
    LET t == Trim(l) IN
    /\ Len(t) \in 1..(TitleLenLimit - 1)
    /\ \A k \in DOMAIN t : t[k] \notin Range(LowerLetters)
    /\ \E k \in DOMAIN t : t[k] \in Letters
    /\ t \notin BANNED_TITLES

\* the four lines before the line of 0-based index k are all blank
PrecededByFourBlank(ls, k) ==
    k >= 4 /\ \A d \in 1..4 : BlankLine(ls[k + 1 - d])

\* 0-based indices of the title lines preceded by four blank lines
ProperTitles ==
    LET ls == InputLines
    IN  {k \in 0..(Len(ls) - 1) :
            TitleCandidate(ls[k + 1]) /\ PrecededByFourBlank(ls, k)}

NthTitle(n) ==
    LET pt == ProperTitles
    IN  CHOOSE k \in pt : Cardinality({m \in pt : m < k}) = n - 1

\* the 0-based index one past the last line of the n-th title's body
BodyEnd(n) ==
    IF n < Cardinality(ProperTitles) THEN NthTitle(n + 1) ELSE Len(InputLines)

RECURSIVE LinesWithNL(_, _, _)
LinesWithNL(ls, from, to) ==
    IF from >= to THEN <<>>
    ELSE ls[from + 1] \o <<NL>> \o LinesWithNL(ls, from + 1, to)

\* the lines between the n-th title and the next one, trimmed as a whole
BodyOf(n) == Trim(LinesWithNL(InputLines, NthTitle(n) + 1, BodyEnd(n)))

NoOuterWhiteSpace(s) ==
    s = <<>> \/ (s[1] \notin WhiteSpace /\ s[Len(s)] \notin WhiteSpace)

\* C7 as stated: N titles each preceded by four blank lines give exactly N
\* chapters, the i-th with the i-th title and trimmed content.
C7_ExactlyNChapters ==
    ppc = "done" =>
        /\ Len(chapters) = Cardinality(ProperTitles)
        /\ \A j \in 1..Len(chapters) :
              /\ chapters[j].title = Trim(InputLines[NthTitle(j) + 1])
              /\ NoOuterWhiteSpace(chapters[j].content)

\* C7 (amended): parseChapters returns one chapter per title line preceded by
\* four blank lines, in document order, except that the last of them is
\* dropped when nothing but blank lines follows it; the i-th chapter has the
\* i-th such line, trimmed, as title and the trimmed lines up to the next
\* title as content (no leading or trailing white space).
C7_NChaptersButEmptyLast ==
    ppc = "done" =>
        LET N == Cardinality(ProperTitles)
            dropped == IF N > 0 /\ BodyOf(N) = <<>> THEN 1 ELSE 0
        IN  /\ Len(chapters) = N - dropped
            /\ \A j \in 1..Len(chapters) :
                  /\ chapters[j].title = Trim(InputLines[NthTitle(j) + 1])
                  /\ chapters[j].content = BodyOf(j)
                  /\ NoOuterWhiteSpace(chapters[j].content)

\* two proper titles, both with content, and two chapters returned
C7_Witness ==
    /\ ppc = "done"
    /\ Cardinality(ProperTitles) = 2
    /\ Len(chapters) = 2
    /\ chapters[1].title # chapters[2].title
    /\ chapters[1].content # <<>>

\* C8: a title candidate whose four preceding lines are not all blank never
\* starts a chapter; with a chapter open, the raw line and a newline are
\* appended to its content and the number of chapters does not change.
C8_UnconfirmedCandidateIsContent ==
    [][ (/\ ppc = "loop" /\ i < Len(lines)
         /\ TitleCandidate(line)
         /\ ~PrecededByFourBlank(lines, i))
        => /\ chapters' = chapters
           /\ Len(currentChapter') = Len(currentChapter)
           /\ currentChapter # <<>> =>
                 /\ currentChapter'[1].title = currentChapter[1].title
                 /\ currentChapter'[1].content =
                        currentChapter[1].content \o line \o <<NL>> ]_vars

\* the line just processed was a title candidate after fewer than four blank
\* lines, and the open chapter's content now ends with it
C8_Witness ==
    /\ ppc = "loop" /\ i > 0
    /\ TitleCandidate(lines[i])
    /\ ~PrecededByFourBlank(lines, i - 1)
    /\ currentChapter # <<>>
    /\ LET c == currentChapter[1].content
           l == lines[i] \o <<NL>>
       IN  Len(c) > Len(l) /\ SubSeq(c, Len(c) - Len(l) + 1, Len(c)) = l

\* C9: no chapter, returned or open, has a banned title; a banned line met
\* while a chapter is open is appended to that chapter's content.
C9_BannedNeverTitle ==
    /\ [](/\ \A j \in 1..Len(chapters) : chapters[j].title \notin BANNED_TITLES
          /\ currentChapter # <<>> => currentChapter[1].title \notin BANNED_TITLES)
    /\ [][ (/\ ppc = "loop" /\ i < Len(lines)
            /\ Trim(line) \in BANNED_TITLES
            /\ currentChapter # <<>>)
           => /\ chapters' = chapters
              /\ currentChapter' =
                    <<[title   |-> currentChapter[1].title,
                       content |-> currentChapter[1].content \o line \o <<NL>>]>> ]_vars

\* a banned heading preceded by four blank lines was met with a chapter open
\* and the parse has ended with that heading inside a chapter's content
C9_Witness ==
    /\ ppc = "done"
    /\ \E k \in 0..(Len(InputLines) - 1) :
          /\ Trim(InputLines[k + 1]) \in BANNED_TITLES
          /\ PrecededByFourBlank(InputLines, k)
          /\ \E n \in 1..Cardinality(ProperTitles) :
                NthTitle(n) < k /\ k < BodyEnd(n) /\ n <= Len(chapters)
                /\ Len(chapters[n].content) >= Len(Trim(InputLines[k + 1]))

\* 0-based index of the first confirmed boundary, or the number of lines
FirstBoundary ==
    LET pt == ProperTitles
    IN  IF pt = {} THEN Len(InputLines)
        ELSE CHOOSE k \in pt : \A m \in pt : k <= m

\* C10: parseChapters returns the empty sequence for the empty text and for
\* every text without a confirmed boundary; until the first confirmed
\* boundary is reached no chapter is open and none is returned, so the lines
\* before it are in no chapter.
C10_NothingBeforeFirstBoundary ==
    /\ (ppc = "done" /\ ProperTitles = {}) => chapters = <<>>
    /\ (ppc = "loop" /\ (currentChapter # <<>> \/ chapters # <<>>)) =>
            i > FirstBoundary
    /\ ppc = "done" =>
            \A j \in 1..Len(chapters) :
                /\ chapters[j].title = Trim(InputLines[NthTitle(j) + 1])
                /\ chapters[j].content = BodyOf(j)

\* a text with non-blank lines before its first boundary has been parsed
\* into at least one chapter
C10_Witness ==
    /\ ppc = "done"
    /\ chapters # <<>>
    /\ \E k \in 0..(FirstBoundary - 1) : ~BlankLine(InputLines[k + 1])

\* a non-empty text without any confirmed boundary has been parsed
C10_WitnessEmpty ==
    ppc = "done" /\ text # <<>> /\ ProperTitles = {} /\ chapters = <<>>

\* C31: a chapter open when the next confirmed boundary is reached is
\* pushed even if its trimmed content is empty; the chapter open at the end
\* of the input is pushed only if its trimmed content is not empty; so the
\* number of chapters returned is the number of confirmed boundaries, less
\* one exactly when the last confirmed title has empty trimmed content
C31_EmptyPushedAtBoundaryDroppedAtEnd ==
    /\ [](ppc = "done" =>
            Len(chapters) = Cardinality(ProperTitles)
                - (IF ProperTitles # {} /\ BodyOf(Cardinality(ProperTitles)) = <<>>
                   THEN 1 ELSE 0))
    /\ [][(/\ ppc = "loop" /\ i < Len(lines)
           /\ i \in ProperTitles
           /\ currentChapter # <<>>)
          => /\ Len(chapters') = Len(chapters) + 1
             /\ chapters'[Len(chapters')].title = currentChapter[1].title
             /\ chapters'[Len(chapters')].content = Trim(currentChapter[1].content)]_vars
    /\ [][(ppc = "loop" /\ ppc' = "done" /\ currentChapter # <<>>)
          => Len(chapters') = Len(chapters)
                + (IF Trim(currentChapter[1].content) # <<>> THEN 1 ELSE 0)]_vars

\* two confirmed titles, both without content: the first was pushed at the
\* second, the second was dropped at the end
C31_Witness ==
    /\ ppc = "done"
    /\ Cardinality(ProperTitles) = 2
    /\ Len(chapters) = 1
    /\ chapters[1].content = <<>>
    /\ currentChapter # <<>> /\ Trim(currentChapter[1].content) = <<>>

\* two confirmed titles, the first without content: both were pushed
C31_WitnessBothPushed ==
    /\ ppc = "done"
    /\ Cardinality(ProperTitles) = 2
    /\ Len(chapters) = 2
    /\ chapters[1].content = <<>>
    /\ chapters[2].content # <<>>

(***************************************************************************)
(* parseChapters on texts built around one line: the line may be a title   *)
(* in ASCII or in another script, too long, in lower case, of digits and   *)
(* punctuation only, or banned; it stands first in the text, after a line  *)
(* of body text or after an open chapter, behind 0..MaxBlanksBefore blank  *)
(* lines of which one may consist of white space.                          *)
(***************************************************************************)
MaxBlanksBefore == 4

Repeat(c, n) == [k \in 1..n |-> c]

CandidateLines ==
    { <<"A">>,
      <<" ", "A", "\t">>,
      <<"a">>,
      <<"A", "b">>,
      <<"A", " ", "1", ".">>,
      <<"1", ".">>,
      <<"-">>,
      <<"1", " ", "2">>,
      <<CapitalGhe, CapitalGhe>>,
      <<CapitalGhe, " ", "1">>,
      <<SmallGhe>>,
      <<"A", CapitalGhe>>,
      <<"A", SmallGhe>>,
      Repeat("A", TitleLenLimit - 1),
      Repeat("A", TitleLenLimit),
      <<" ">> \o Repeat("A", TitleLenLimit - 1) \o <<" ">>,
      <<"C","O","V","E","R">>,
      <<"C","O","V","E","R","S">> }

\* n blank lines, the one at position ws (if any) made of white space
BlanksBefore(n, ws) == [k \in 1..n |-> IF k = ws THEN <<" ", "\t">> ELSE <<>>]

LinesBefore ==
    {before \o BlanksBefore(n, ws) :
        before \in {<<>>, << <<"b">> >>, << <<"B">>, <<"c">> >>},
        n \in 0..MaxBlanksBefore, ws \in 0..MaxBlanksBefore}

TitleTexts ==
    {JoinLines(before \o <<cand>> \o after) :
        before \in LinesBefore, cand \in CandidateLines,
        after \in {<<>>, << <<"d">> >>}}

InitTitles ==
    /\ text \in TitleTexts
    /\ lines = <<>>
    /\ i = 0
    /\ currentChapter = <<>>
    /\ chapters = <<>>
    /\ ppc = "start"
    /\ IdleRoundTrip /\ IdleStore /\ IdleApp /\ IdleGetFile /\ IdleClean
    /\ IdleTitle /\ IdleTransport /\ IdleMount

SpecTitles == InitTitles /\ [][NextParser]_vars

Alphabetic == Letters \cup {SmallGhe, CapitalGhe}

LowerCase == Range(LowerLetters) \cup {SmallGhe}

\* the criteria of a chapter title, for the line of 0-based index k of ls
TitleCriteria(ls, k) ==
    LET t == Trim(ls[k + 1]) IN
    /\ Len(t) >= 1 /\ Len(t) <= 49
    /\ \A c \in DOMAIN t : t[c] \notin LowerCase
    /\ \E c \in DOMAIN t : t[c] \in Alphabetic
    /\ \E c \in DOMAIN t : t[c] \notin DigitsPunct
    /\ t \notin BANNED_TITLES
    /\ PrecededByFourBlank(ls, k)

\* the same with a letter of A-Z in place of an alphabetic character
TitleCriteriaAZ(ls, k) ==
    /\ TitleCriteria(ls, k)
    /\ \E c \in DOMAIN ls[k + 1] : ls[k + 1][c] \in Range(UpperLetters)

\* the loop step on the current line opens a chapter titled by that line
StartsChapter ==
    /\ currentChapter' = <<[title |-> trimmedLine, content |-> <<>>]>>
    /\ chapters' = IF currentChapter = <<>> THEN chapters
                   ELSE Append(chapters, Finalized(currentChapter[1]))

LoopStep == ppc = "loop" /\ i < Len(lines) /\ i' = i + 1

\* C30: a line starts a new chapter if and only if its trimmed form has 1 to
\* 49 characters, no lowercase letter, at least one alphabetic character,
\* not only digits, white space and . , ! ? -, is no banned title, and the
\* four lines before it (the four prepended ones counted) are blank
C30_StartsChapterIffCriteria ==
    [][LoopStep => (StartsChapter <=> TitleCriteria(lines, i))]_vars

\* C30, the part that holds: a line starts a new chapter if and only if it
\* meets the criteria and has a letter of A-Z
C30_StartsChapterIffCriteriaAZ ==
    [][LoopStep => (StartsChapter <=> TitleCriteriaAZ(lines, i))]_vars

\* C30, the consequence that holds: the title of every open or returned
\* chapter is a line of the text that meets all the criteria
C30_EveryTitleMeetsCriteria ==
    \A t \in {currentChapter[k].title : k \in DOMAIN currentChapter}
             \cup {chapters[k].title : k \in DOMAIN chapters} :
        \E k \in 0..(Len(lines) - 1) :
            Trim(lines[k + 1]) = t /\ TitleCriteria(lines, k)

\* C30, the consequence that holds: a title in A-Z on the first line of the
\* text opens a chapter
C30_FirstLineTitleDetected ==
    [][(LoopStep /\ i = 4 /\ TitleCriteriaAZ(lines, 4)) => StartsChapter]_vars

\* a title in A-Z on the first line of the text has opened a chapter
C30_WitnessFirstLine ==
    /\ ppc = "loop" /\ i = 5
    /\ TitleCriteriaAZ(lines, 4)
    /\ currentChapter = <<[title |-> Trim(lines[5]), content |-> <<>>]>>

\* a line of capital letters outside A-Z, four blank lines before it, has
\* been passed and has opened no chapter
C30_WitnessOtherScript ==
    /\ ppc = "loop" /\ i >= 5
    /\ TitleCriteria(lines, i - 1)
    /\ ~TitleCriteriaAZ(lines, i - 1)
    /\ currentChapter = <<>>

(***************************************************************************)
(* One call of extractBookTitle on a text: blank lines (empty, or of white *)
(* space only) before a first line with text, which may be longer than the *)
(* title limit and may have white space around it, and lines after it.     *)
(***************************************************************************)
BookTitleLimit == 100

UntitledBook == <<"U","n","t","i","t","l","e","d"," ","B","o","o","k">>

\* s.substring(0, n)
Substring(s, n) == SubSeq(s, 1, IF Len(s) < n THEN Len(s) ELSE n)

\* mutant: the first line with text is returned whole
TitleFrom_NoLimit(ls) ==
    IF \E k \in DOMAIN ls : Trim(ls[k]) # <<>>
    THEN Trim(ls[CHOOSE k \in DOMAIN ls :
                    /\ Trim(ls[k]) # <<>>
                    /\ \A j \in 1..(k - 1) : Trim(ls[j]) = <<>>])
    ELSE UntitledBook

\* for (const line of lines) { ... if (trimmed.length > 0) return ...; }
RECURSIVE TitleFrom(_)
TitleFrom(ls) ==
    IF ls = <<>> THEN UntitledBook
    ELSE IF Len(Trim(Head(ls))) > 0
         THEN Substring(Trim(Head(ls)), BookTitleLimit)
         ELSE TitleFrom(Tail(ls))

extractBookTitle(t) ==
    IF t = <<>> THEN UntitledBook ELSE TitleFrom(Split(t))

MaxLeadingBlank == 2

BlankLines == { <<>>, <<" ">>, <<"\t", "\r">> }

\* a line of n characters in which no two neighbours are equal
LongLine(n) == [k \in 1..n |-> IF k % 2 = 1 THEN "x" ELSE "Y"]

FirstLines ==
    { <<"A">>,
      <<" ", "A", " ", "b", "\t">>,
      LongLine(BookTitleLimit - 1),
      LongLine(BookTitleLimit),
      LongLine(BookTitleLimit + 1),
      <<" ">> \o LongLine(BookTitleLimit + 2) \o <<" ">>,
      LongLine(BookTitleLimit - 1) \o <<" ", "z">> }

LeadingBlank == UNION {[1..n -> BlankLines] : n \in 0..MaxLeadingBlank}

BookTexts ==
    {JoinLines(lead \o first \o rest) :
        lead \in LeadingBlank,
        first \in {<<>>} \cup {<<l>> : l \in FirstLines},
        rest \in {<<>>, << <<"B">> >>, << <<>>, <<"c">> >>}}

InitBookTitle ==
    /\ text \in BookTexts
    /\ lines = <<>> /\ i = 0 /\ currentChapter = <<>> /\ chapters = <<>>
    /\ ppc = "idle"
    /\ IdleTitle
    /\ IdleRoundTrip /\ IdleStore /\ IdleApp /\ IdleGetFile /\ IdleClean
    /\ IdleTransport /\ IdleMount

ExtractBookTitle ==
    /\ bookTitle = <<>>
    /\ bookTitle' = <<extractBookTitle(text)>>
    /\ UNCHANGED <<parserVars, notTitleVars>>

NextBookTitle == ExtractBookTitle

SpecBookTitle == InitBookTitle /\ [][NextBookTitle]_vars

\* the 1-based positions of the lines of the text that are not blank
TextLines == {k \in DOMAIN Split(text) : ~BlankLine(Split(text)[k])}

FirstTextLine ==
    Split(text)[CHOOSE k \in TextLines : \A j \in TextLines : k <= j]

\* C22: extractBookTitle returns the first line of the text whose trimmed
\* form is not empty, trimmed and cut to at most 100 characters, and
\* "Untitled Book" for a text without such a line (empty, or blank lines only)
C22_FirstLineTrimmedAndCut ==
    bookTitle # <<>> =>
        IF TextLines = {}
        THEN bookTitle[1] = UntitledBook
        ELSE /\ Len(bookTitle[1]) <= BookTitleLimit
             /\ Len(bookTitle[1]) = BookTitleLimit
                \/ bookTitle[1] = Trim(FirstTextLine)
             /\ \A k \in DOMAIN bookTitle[1] :
                    bookTitle[1][k] = Trim(FirstTextLine)[k]

\* a title cut from a longer line with white space around it, found after
\* a blank line
C22_Witness ==
    /\ bookTitle # <<>>
    /\ TextLines # {}
    /\ 1 \notin TextLines
    /\ Len(FirstTextLine) > Len(Trim(FirstTextLine))
    /\ Len(Trim(FirstTextLine)) > BookTitleLimit
    /\ Len(bookTitle[1]) = BookTitleLimit

\* the placeholder returned for a text of blank lines that is not empty
C22_WitnessUntitled ==
    /\ bookTitle = <<UntitledBook>>
    /\ text # <<>>
    /\ TextLines = {}

(***************************************************************************)
(* services/gist.ts: the library as files of a gist.                       *)
(*                                                                         *)
(* A book is [id, title, chapters, summaries, images, lastAccessed]; id 0  *)
(* stands for a missing id.  chapters is an array of chapters or nulls, a  *)
(* chapter being [title, size] with size the length of its JSON text.      *)
(* summaries and images are maps from 0-based chapter indices.             *)
(* A file name is a tuple: <<"book", 3>> is book_3.json, <<"meta", 3>> is  *)
(* book_3_meta.json and <<"chunk", 3, 0>> is book_3_chunk_0.json.  The     *)
(* content of a file is <<"json", v>>, the JSON text of the value v.       *)
(***************************************************************************)
GIST_INDEX_FILENAME == <<"saga_library_index.json">>
LEGACY_FILENAME == <<"saga_library.json">>
BookFile(id) == <<"book", id>>
MetaFile(id) == <<"meta", id>>
ChunkFile(id, n) == <<"chunk", id, n>>

MAX_FILE_SIZE == 800000
chunkSize == 10

NullChapter == [null |-> TRUE]

JSONstringify(v) == <<"json", v>>
\* JSON.parse throws on a text that is no JSON
Parsable(content) == content[1] = "json"
JSONparse(content) == content[2]

\* An image is [base64 |-> n], a base64 text of identity n > 0; the empty
\* string is [base64 |-> 0].  A summary is an object [quote |-> ...].
EmptyString == [base64 |-> 0]

\* a JavaScript value used as a condition: the empty string is falsy, an
\* object is truthy
Truthy(v) == v # EmptyString

RECURSIVE SumOver(_, _)
SumOver(S, f) ==
    IF S = {} THEN 0
    ELSE LET x == CHOOSE y \in S : TRUE IN f[x] + SumOver(S \ {x}, f)

Min(a, b) == IF a < b THEN a ELSE b

\* lengths of the JSON text of a summary, of an image and of a null
SummaryLen == 300
ImageLen == 50000
NullLen == 4

\* JSON.stringify(book, null, 2).length, from the lengths of the parts
JsonLength(book) ==
    SumOver(DOMAIN book.chapters,
            [k \in DOMAIN book.chapters |->
                IF book.chapters[k] = NullChapter THEN NullLen
                ELSE book.chapters[k].size])
    + Cardinality(DOMAIN book.summaries) * SummaryLen
    + Cardinality(DOMAIN book.images) * ImageLen

Put(files, name, content) ==
    [n \in DOMAIN files \cup {name} |-> IF n = name THEN content ELSE files[n]]

IndexEntry(book) ==
    [id |-> book.id, title |-> book.title,
     chapterCount |-> Len(book.chapters),
     summaries |-> book.summaries, images |-> book.images,
     lastAccessed |-> book.lastAccessed]

\* the keys of the chunk starting at chapter index base: local index l stands
\* for global index base + l
ChunkKeys(map, base, len) ==
    {l \in 0..(len - 1) : (base + l) \in DOMAIN map /\ Truthy(map[base + l])}

\* mutant: the chunk keeps the global indices as keys
ChunkOf_GlobalKeys(book, i0) ==
    LET chunkChapters ==
            SubSeq(book.chapters, i0 + 1, Min(i0 + chunkSize, Len(book.chapters)))
        len == Len(chunkChapters)
    IN  [id |-> book.id, title |-> book.title,
         chapters |-> chunkChapters,
         summaries |-> [g \in {i0 + l : l \in ChunkKeys(book.summaries, i0, len)} |->
                            book.summaries[g]],
         images |-> [g \in {i0 + l : l \in ChunkKeys(book.images, i0, len)} |->
                            book.images[g]],
         lastAccessed |-> book.lastAccessed]

\* the chunk pushed for the loop index i0 = 0, chunkSize, 2 * chunkSize, ...
ChunkOf(book, i0) ==
    LET chunkChapters ==
            SubSeq(book.chapters, i0 + 1, Min(i0 + chunkSize, Len(book.chapters)))
        len == Len(chunkChapters)
    IN  [id |-> book.id, title |-> book.title,
         chapters |-> chunkChapters,
         summaries |-> [l \in ChunkKeys(book.summaries, i0, len) |->
                            book.summaries[i0 + l]],
         images |-> [l \in ChunkKeys(book.images, i0, len) |->
                            book.images[i0 + l]],
         lastAccessed |-> book.lastAccessed]

\* for (let i = 0; i < book.chapters.length; i += chunkSize) chunks.push(...)
RECURSIVE ChunksFrom(_, _)
ChunksFrom(book, i0) ==
    IF i0 < Len(book.chapters)
    THEN <<ChunkOf(book, i0)>> \o ChunksFrom(book, i0 + chunkSize)
    ELSE <<>>

RECURSIVE PutChunks(_, _, _, _)
PutChunks(files, id, chunks, idx) ==
    IF idx >= Len(chunks) THEN files
    ELSE PutChunks(Put(files, ChunkFile(id, idx), JSONstringify(chunks[idx + 1])),
                   id, chunks, idx + 1)

\* the body of books.forEach in splitBooksIntoFiles
SplitBook_NoIdCheck(files, book) ==
    IF JsonLength(book) <= MAX_FILE_SIZE
    THEN Put(files, BookFile(book.id), JSONstringify(book))
    ELSE LET chunks == ChunksFrom(book, 0)
             meta == [id |-> book.id, title |-> book.title,
                      totalChapters |-> Len(book.chapters),
                      chunkCount |-> Len(chunks),
                      lastAccessed |-> book.lastAccessed]
         IN  PutChunks(Put(files, MetaFile(book.id), JSONstringify(meta)),
                       book.id, chunks, 0)

SplitBook_Below(files, book) ==
    IF book.id = 0 THEN files
    ELSE IF JsonLength(book) < MAX_FILE_SIZE
    THEN Put(files, BookFile(book.id), JSONstringify(book))
    ELSE LET chunks == ChunksFrom(book, 0)
             meta == [id |-> book.id, title |-> book.title,
                      totalChapters |-> Len(book.chapters),
                      chunkCount |-> Len(chunks),
                      lastAccessed |-> book.lastAccessed]
         IN  PutChunks(Put(files, MetaFile(book.id), JSONstringify(meta)),
                       book.id, chunks, 0)

SplitBook(files, book) ==
    IF book.id = 0 THEN files
    ELSE IF JsonLength(book) <= MAX_FILE_SIZE
    THEN Put(files, BookFile(book.id), JSONstringify(book))
    ELSE LET chunks == ChunksFrom(book, 0)
             meta == [id |-> book.id, title |-> book.title,
                      totalChapters |-> Len(book.chapters),
                      chunkCount |-> Len(chunks),
                      lastAccessed |-> book.lastAccessed]
         IN  PutChunks(Put(files, MetaFile(book.id), JSONstringify(meta)),
                       book.id, chunks, 0)

RECURSIVE SplitEach(_, _)
SplitEach(files, books) ==
    IF books = <<>> THEN files
    ELSE SplitEach(SplitBook(files, Head(books)), Tail(books))

splitBooksIntoFiles(books) ==
    SplitEach(Put(<<>>, GIST_INDEX_FILENAME,
                  JSONstringify([k \in DOMAIN books |-> IndexEntry(books[k])])),
              books)

\* the empty string as the text of a file
EmptyText == <<"empty">>

\* GET /gists/{id} returns the text of a file inline up to one megabyte; of a
\* longer file it returns the beginning and truncated = true
GistInlineLimit == 1048576

MapsLength(v) ==
    Cardinality(DOMAIN v.summaries) * SummaryLen
    + Cardinality(DOMAIN v.images) * ImageLen

\* the length of the text of the file of that name, from the lengths of its
\* parts
TextLength(name, content) ==
    IF ~Parsable(content) THEN 0
    ELSE LET v == JSONparse(content) IN
         CASE name[1] \in {"book", "chunk"} -> JsonLength(v)
           [] name[1] = "meta" -> 0
           [] name = LEGACY_FILENAME ->
                SumOver(DOMAIN v, [k \in DOMAIN v |-> JsonLength(v[k])])
           [] OTHER ->
                SumOver(DOMAIN v, [k \in DOMAIN v |-> MapsLength(v[k])])

\* gist.files[name] as the API returns it: << >> for undefined, or the
\* descriptor <<[content, truncated, raw_url]>>; the raw_url is given as the
\* text it serves
GistFile(files, name) ==
    IF name \notin DOMAIN files THEN <<>>
    ELSE LET cut == TextLength(name, files[name]) > GistInlineLimit
         IN  <<[content |-> IF cut THEN <<"cut", files[name]>> ELSE files[name],
                truncated |-> cut,
                raw_url |-> <<files[name]>>]>>

\* getFileContent: << >> for null, or <<content>>.  first and second are
\* the responses to its two fetches of the raw_url: << >> for a response
\* that is not ok or a fetch that throws, or <<text>>
getFileContent(file, first, second) ==
    IF file = <<>> THEN <<>>
    ELSE IF file[1].truncated /\ file[1].raw_url # <<>> /\ first # <<>> THEN first
    ELSE IF file[1].content # EmptyText THEN <<file[1].content>>
    ELSE IF file[1].raw_url # <<>> /\ second # <<>> THEN second
    ELSE <<>>

\* fetch(file.raw_url) answered with the text of the file
fetchRaw(file) == IF file = <<>> THEN <<>> ELSE file[1].raw_url

\* the content of the file of that name when every fetch is answered
FileContent(files, name) ==
    LET file == GistFile(files, name)
    IN  getFileContent(file, fetchRaw(file), fetchRaw(file))

\* gist.files['saga_library.json']?.content: << >> when falsy
LegacyContent(files) ==
    LET file == GistFile(files, LEGACY_FILENAME)
    IN  IF file = <<>> \/ file[1].content = EmptyText THEN <<>>
        ELSE <<file[1].content>>

\* mutant: the chunk-local keys are not shifted by the base index
Rekey_NoBase(all, local, baseIdx) ==
    [g \in DOMAIN all \cup DOMAIN local |->
        IF g \in DOMAIN local THEN local[g] ELSE all[g]]

\* allSummaries[baseIdx + parseInt(localIdx)] = summary, for every entry
Rekey(all, local, baseIdx) ==
    [g \in DOMAIN all \cup {baseIdx + l : l \in DOMAIN local} |->
        IF (g - baseIdx) \in DOMAIN local THEN local[g - baseIdx] ELSE all[g]]

RECURSIVE LoadChunks_ChunkIndexBase(_, _, _, _, _)
LoadChunks_ChunkIndexBase(files, bookId, chunkIdx, chunkCount, acc) ==
    IF chunkIdx >= chunkCount THEN acc
    ELSE LET chunkContent == FileContent(files, ChunkFile(bookId, chunkIdx))
             next ==
                IF chunkContent # <<>> /\ Parsable(chunkContent[1])
                THEN LET chunk == JSONparse(chunkContent[1])
                         baseIdx == chunkIdx * chunkSize
                     IN  [chapters |-> acc.chapters \o chunk.chapters,
                          summaries |-> Rekey(acc.summaries, chunk.summaries, baseIdx),
                          images |-> Rekey(acc.images, chunk.images, baseIdx)]
                ELSE acc
         IN  LoadChunks_ChunkIndexBase(files, bookId, chunkIdx + 1, chunkCount, next)

\* for (let chunkIdx = 0; chunkIdx < meta.chunkCount; chunkIdx++) { ... }
RECURSIVE LoadChunks(_, _, _, _, _)
LoadChunks(files, bookId, chunkIdx, chunkCount, acc) ==
    IF chunkIdx >= chunkCount THEN acc
    ELSE LET chunkContent == FileContent(files, ChunkFile(bookId, chunkIdx))
             next ==
                IF chunkContent # <<>> /\ Parsable(chunkContent[1])
                THEN LET chunk == JSONparse(chunkContent[1])
                         baseIdx == Len(acc.chapters)
                     IN  [chapters |-> acc.chapters \o chunk.chapters,
                          summaries |-> Rekey(acc.summaries, chunk.summaries, baseIdx),
                          images |-> Rekey(acc.images, chunk.images, baseIdx)]
                ELSE acc
         IN  LoadChunks(files, bookId, chunkIdx + 1, chunkCount, next)

\* the chunked book of a meta file: <<book>>, or << >> when the meta file
\* does not parse
LoadChunked(files, bookId, metaContent) ==
    IF ~Parsable(metaContent) THEN <<>>
    ELSE LET meta == JSONparse(metaContent)
             all == LoadChunks(files, bookId, 0, meta.chunkCount,
                               [chapters |-> <<>>, summaries |-> <<>>, images |-> <<>>])
         IN  <<[id |-> meta.id, title |-> meta.title,
                chapters |-> all.chapters,
                summaries |-> all.summaries, images |-> all.images,
                lastAccessed |-> meta.lastAccessed]>>

LoadIndexed_KeepsBroken(files, bookId) ==
    LET metaContent == FileContent(files, MetaFile(bookId))
        bookContent == FileContent(files, BookFile(bookId))
    IN  IF metaContent # <<>> /\ Parsable(metaContent[1])
        THEN LoadChunked(files, bookId, metaContent[1])
        ELSE IF bookContent # <<>> /\ Parsable(bookContent[1])
        THEN <<JSONparse(bookContent[1])>>
        ELSE <<[id |-> bookId, title |-> bookId, chapters |-> <<>>,
                summaries |-> <<>>, images |-> <<>>, lastAccessed |-> 0]>>

\* the body of the loop over the index entries: the books pushed for one entry
LoadIndexed(files, bookId) ==
    LET metaContent == FileContent(files, MetaFile(bookId))
        bookContent == FileContent(files, BookFile(bookId))
    IN  IF metaContent # <<>> THEN LoadChunked(files, bookId, metaContent[1])
        ELSE IF bookContent # <<>> /\ Parsable(bookContent[1])
        THEN <<JSONparse(bookContent[1])>>
        ELSE <<>>

RECURSIVE LoadIndexEntries(_, _)
LoadIndexEntries(files, index) ==
    IF index = <<>> THEN <<>>
    ELSE LoadIndexed(files, Head(index).id) \o LoadIndexEntries(files, Tail(index))

ScanFile_NoDedup(files, filename, st) ==
    IF filename[1] = "chunk"
    THEN LET bookId == filename[2]
             metaContent == FileContent(files, MetaFile(bookId))
         IN  IF bookId \in st.processedBookIds THEN st
             ELSE [books |-> st.books \o
                       (IF metaContent # <<>>
                        THEN LoadChunked(files, bookId, metaContent[1]) ELSE <<>>),
                   processedBookIds |-> st.processedBookIds \cup {bookId}]
    ELSE IF filename[1] = "book"
    THEN LET bookContent == FileContent(files, filename)
         IN  IF bookContent # <<>> /\ Parsable(bookContent[1])
             THEN LET book == JSONparse(bookContent[1])
                  IN  IF book.id # 0
                      THEN [books |-> Append(st.books, book),
                            processedBookIds |-> st.processedBookIds \cup {book.id}]
                      ELSE st
             ELSE st
    ELSE st

ScanFile_NoChunks(files, filename, st) ==
    IF filename[1] = "book"
    THEN LET bookContent == FileContent(files, filename)
         IN  IF bookContent # <<>> /\ Parsable(bookContent[1])
             THEN LET book == JSONparse(bookContent[1])
                  IN  IF book.id # 0 /\ book.id \notin st.processedBookIds
                      THEN [books |-> Append(st.books, book),
                            processedBookIds |-> st.processedBookIds \cup {book.id}]
                      ELSE st
             ELSE st
    ELSE st

\* the fallback loop over Object.keys(gist.files); st = [books, processedBookIds]
ScanFile(files, filename, st) ==
    IF filename[1] = "chunk"
    THEN LET bookId == filename[2]
             metaContent == FileContent(files, MetaFile(bookId))
         IN  IF bookId \in st.processedBookIds THEN st
             ELSE [books |-> st.books \o
                       (IF metaContent # <<>>
                        THEN LoadChunked(files, bookId, metaContent[1]) ELSE <<>>),
                   processedBookIds |-> st.processedBookIds \cup {bookId}]
    ELSE IF filename[1] = "book"
    THEN LET bookContent == FileContent(files, filename)
         IN  IF bookContent # <<>> /\ Parsable(bookContent[1])
             THEN LET book == JSONparse(bookContent[1])
                  IN  IF book.id # 0 /\ book.id \notin st.processedBookIds
                      THEN [books |-> Append(st.books, book),
                            processedBookIds |-> st.processedBookIds \cup {book.id}]
                      ELSE st
             ELSE st
    ELSE st

RECURSIVE ScanFiles(_, _, _)
ScanFiles(files, keys, st) ==
    IF keys = <<>> THEN st
    ELSE ScanFiles(files, Tail(keys), ScanFile(files, Head(keys), st))

\* the text a load parses for the file of that name: the old library file is
\* read from gist.files[...].content, every other file through getFileContent
ReadContent(files, name) ==
    IF name = LEGACY_FILENAME THEN LegacyContent(files) ELSE FileContent(files, name)

\* the index file is present, parses and lists at least one book
IndexContent(files) == FileContent(files, GIST_INDEX_FILENAME)
IndexUnparsable(files) ==
    IndexContent(files) # <<>> /\ ~Parsable(IndexContent(files)[1])
IndexListsBooks(files) ==
    /\ IndexContent(files) # <<>>
    /\ Parsable(IndexContent(files)[1])
    /\ JSONparse(IndexContent(files)[1]) # <<>>

loadBooksFromGist_EmptyIndexReturns(files, keys) ==
    IF IndexUnparsable(files) THEN [ok |-> FALSE, books |-> <<>>]
    ELSE IF IndexContent(files) # <<>>
    THEN [ok |-> TRUE,
          books |-> LoadIndexEntries(files, JSONparse(IndexContent(files)[1]))]
    ELSE IF LegacyContent(files) # <<>>
    THEN [ok |-> TRUE,
          books |-> IF Parsable(LegacyContent(files)[1])
                    THEN JSONparse(LegacyContent(files)[1]) ELSE <<>>]
    ELSE [ok |-> TRUE,
          books |-> ScanFiles(files, keys,
                              [books |-> <<>>, processedBookIds |-> {}]).books]

\* loadBooksFromGist once the gist is fetched; keys is Object.keys(gist.files).
\* The result is [ok, books]; ok = FALSE is the thrown library-level error.
loadBooksFromGist(files, keys) ==
    IF IndexUnparsable(files) THEN [ok |-> FALSE, books |-> <<>>]
    ELSE IF IndexListsBooks(files)
    THEN [ok |-> TRUE,
          books |-> LoadIndexEntries(files, JSONparse(IndexContent(files)[1]))]
    ELSE IF LegacyContent(files) # <<>>
    THEN [ok |-> TRUE,
          books |-> IF Parsable(LegacyContent(files)[1])
                    THEN JSONparse(LegacyContent(files)[1]) ELSE <<>>]
    ELSE [ok |-> TRUE,
          books |-> ScanFiles(files, keys,
                              [books |-> <<>>, processedBookIds |-> {}]).books]

\* the orders in which Object.keys may list the files; the order matters only
\* when the load reaches the scan of the file names
RECURSIVE Orders(_)
Orders(S) ==
    IF S = {} THEN {<<>>}
    ELSE UNION {{<<x>> \o p : p \in Orders(S \ {x})} : x \in S}

ScanReached(files) ==
    ~IndexUnparsable(files) /\ ~IndexListsBooks(files)
    /\ LegacyContent(files) = <<>>

KeyOrders(files) ==
    IF ScanReached(files) THEN Orders(DOMAIN files) ELSE {<<>>}

(***************************************************************************)
(* One save of a library into a new gist, and one load.                    *)
(***************************************************************************)
MaxBooks == 2
MaxChapters == 25
SmallSize == 1000
BigSize == 800000

ChapterCounts == {0, 1, chunkSize + 1, MaxChapters}

\* where the summaries, images and null chapters of a book of n chapters are
MarkPatterns(n) ==
    { [summaries |-> {}, images |-> {}, holes |-> {}],
      [summaries |-> {0, n - 2}, images |-> {n - 1}, holes |-> {}],
      [summaries |-> {chunkSize - 1, chunkSize}, images |-> {0}, holes |-> {1}] }

MakeBook(bookId, n, big, marks) ==
    LET valid == 0..(n - 1) IN
    [id |-> bookId,
     title |-> bookId,
     chapters |-> [k \in 1..n |->
                     IF (k - 1) \in marks.holes THEN NullChapter
                     ELSE [title |-> k,
                           size |-> IF big /\ k = 1 THEN BigSize ELSE SmallSize]],
     summaries |-> [g \in marks.summaries \cap valid |-> [quote |-> g]],
     images |-> [g \in marks.images \cap valid |-> [base64 |-> g + 1]],
     lastAccessed |-> bookId]

BooksWithId(bookId) ==
    UNION {{MakeBook(bookId, n, big, marks) :
                big \in BOOLEAN, marks \in MarkPatterns(n)} : n \in ChapterCounts}

\* the libraries of at most MaxBooks books with distinct ids 1..MaxBooks
Libraries ==
    UNION {{L \in [1..n -> UNION {BooksWithId(b) : b \in 1..MaxBooks}] :
                \A j, k \in 1..n : j # k => L[j].id # L[k].id} : n \in 0..MaxBooks}

InitRoundTrip ==
    /\ library \in Libraries
    /\ bundle = <<>>
    /\ loaded = <<>>
    /\ IdleParser /\ IdleStore /\ IdleApp /\ IdleGetFile /\ IdleClean
    /\ IdleTitle /\ IdleTransport /\ IdleMount

\* saveBooksToGist when findSagaGist finds no gist: createSagaGist
RT_Save ==
    /\ bundle = <<>> /\ loaded = <<>>
    /\ bundle' = <<splitBooksIntoFiles(library)>>
    /\ UNCHANGED <<library, loaded, notRoundTripVars>>

RT_LoadNoGist_Throws ==
    /\ bundle = <<>> /\ loaded = <<>>
    /\ loaded' = <<[ok |-> FALSE, books |-> <<>>]>>
    /\ UNCHANGED <<library, bundle, notRoundTripVars>>

\* loadBooksFromGist when findSagaGist finds no gist
RT_LoadNoGist ==
    /\ bundle = <<>> /\ loaded = <<>>
    /\ loaded' = <<[ok |-> TRUE, books |-> <<>>]>>
    /\ UNCHANGED <<library, bundle, notRoundTripVars>>

\* loadBooksFromGist of the gist
RT_Load ==
    /\ bundle # <<>> /\ loaded = <<>>
    /\ \E keys \in KeyOrders(bundle[1]) :
          loaded' = <<loadBooksFromGist(bundle[1], keys)>>
    /\ UNCHANGED <<library, bundle, notRoundTripVars>>

NextRoundTrip == RT_Save \/ RT_LoadNoGist \/ RT_Load

SpecRoundTrip == InitRoundTrip /\ [][NextRoundTrip]_vars

ChunkedBooks ==
    {k \in 1..Len(library) : MetaFile(library[k].id) \in DOMAIN bundle[1]}

\* the entry of the map at global index g is in chunk g \div chunkSize of the
\* book under the local key g % chunkSize, and no chunk has any other key
PlacedInChunks(id, map, field) ==
    /\ \A g \in DOMAIN map :
          LET name == ChunkFile(id, g \div chunkSize)
          IN  /\ name \in DOMAIN bundle[1]
              /\ (g % chunkSize) \in DOMAIN JSONparse(bundle[1][name])[field]
              /\ JSONparse(bundle[1][name])[field][g % chunkSize] = map[g]
    /\ \A name \in DOMAIN bundle[1] :
          (name[1] = "chunk" /\ name[2] = id) =>
              \A l \in DOMAIN JSONparse(bundle[1][name])[field] :
                  (name[3] * chunkSize + l) \in DOMAIN map

\* C11: in the chunked layout the summary or image of global chapter index g
\* is written to chunk floor(g / 10) under the local key g mod 10, and the
\* load of all chunks puts it back at global index g.
C11_ChunkPlacement ==
    bundle # <<>> =>
        \A k \in ChunkedBooks :
            /\ PlacedInChunks(library[k].id, library[k].summaries, "summaries")
            /\ PlacedInChunks(library[k].id, library[k].images, "images")
            /\ loaded # <<>> =>
                  /\ \A g \in DOMAIN library[k].summaries :
                        /\ g \in DOMAIN loaded[1].books[k].summaries
                        /\ loaded[1].books[k].summaries[g] = library[k].summaries[g]
                  /\ \A g \in DOMAIN library[k].images :
                        /\ g \in DOMAIN loaded[1].books[k].images
                        /\ loaded[1].books[k].images[g] = library[k].images[g]

\* a book of three chunks with a summary in its third chunk, under a local
\* key other than 0, and an image in its third chunk has been saved and loaded
C11_Witness ==
    /\ bundle # <<>> /\ loaded # <<>>
    /\ \E k \in ChunkedBooks :
          /\ \E g \in DOMAIN library[k].summaries :
                /\ g \div chunkSize = 2 /\ g % chunkSize > 0
                /\ loaded[1].books[k].summaries[g] = library[k].summaries[g]
          /\ \E g \in DOMAIN library[k].images : g \div chunkSize = 2

\* the files of the gist that belong to the book of that id
FilesOf(files, id) ==
    {n \in DOMAIN files : n[1] \in {"book", "meta", "chunk"} /\ n[2] = id}

\* C23: a book with an id whose JSON text has at most 800,000 characters is
\* stored as the one file book_{id}.json, without meta or chunk file; a longer
\* one is stored without book_{id}.json, with a meta file holding
\* totalChapters = n and chunkCount = ceil(n / 10) and the chunk files 0 ..
\* chunkCount - 1, chunk k holding the chapters 10k .. min(10k + 9, n - 1).
C23_LayoutBySize ==
    bundle # <<>> =>
        \A k \in 1..Len(library) :
            LET book == library[k]
                n == Len(book.chapters)
                count == (n + chunkSize - 1) \div chunkSize
                files == bundle[1]
            IN  IF JsonLength(book) <= 800000
                THEN /\ FilesOf(files, book.id) = {BookFile(book.id)}
                     /\ JSONparse(files[BookFile(book.id)]) = book
                ELSE /\ FilesOf(files, book.id) =
                            {MetaFile(book.id)}
                            \cup {ChunkFile(book.id, c) : c \in 0..(count - 1)}
                     /\ JSONparse(files[MetaFile(book.id)]).totalChapters = n
                     /\ JSONparse(files[MetaFile(book.id)]).chunkCount = count
                     /\ \A c \in 0..(count - 1) :
                           JSONparse(files[ChunkFile(book.id, c)]).chapters =
                               SubSeq(book.chapters, chunkSize * c + 1,
                                      Min(chunkSize * c + chunkSize, n))

\* a book of 25 chapters has been saved in three chunks, the last of five
\* chapters, next to a book saved in one file
C23_Witness ==
    /\ bundle # <<>> /\ Len(library) = 2
    /\ BookFile(library[1].id) \in DOMAIN bundle[1]
    /\ Len(library[2].chapters) = MaxChapters
    /\ MetaFile(library[2].id) \in DOMAIN bundle[1]
    /\ JSONparse(bundle[1][MetaFile(library[2].id)]).chunkCount = 3
    /\ Len(JSONparse(bundle[1][ChunkFile(library[2].id, 2)]).chapters) = 5

\* a book whose text has exactly 800,000 characters has been saved in one file
C23_WitnessAtLimit ==
    /\ bundle # <<>>
    /\ \E k \in 1..Len(library) :
          /\ JsonLength(library[k]) = MAX_FILE_SIZE
          /\ BookFile(library[k].id) \in DOMAIN bundle[1]

(***************************************************************************)
(* One load of a gist as it may be found: none, a gist of an old version   *)
(* with the single library file, a gist without any file of the library,   *)
(* or the files of a saved library of which one may have been damaged.     *)
(* The library may hold books without id (id 0).                           *)
(***************************************************************************)
LoadBooks ==
    UNION {{MakeBook(b, 1, FALSE, [summaries |-> {0}, images |-> {0}, holes |-> {}]),
            MakeBook(b, MaxChapters, TRUE,
                     [summaries |-> {0, MaxChapters - 2},
                      images |-> {MaxChapters - 1}, holes |-> {1}])} :
           b \in 0..MaxBooks}

\* at most MaxBooks books; those that have an id have distinct ids
LoadLibraries ==
    UNION {{L \in [1..n -> LoadBooks] :
                \A j, k \in 1..n : (j # k /\ L[j].id # 0) => L[j].id # L[k].id} :
           n \in 0..MaxBooks}

LegacyBundle(books) == (LEGACY_FILENAME :> JSONstringify(books))

OtherBundle == (<<"notes.txt">> :> <<"text", 0>>)

\* the files with the text of the files in bad replaced by a text that is
\* no JSON
Damaged(files, bad) ==
    [n \in DOMAIN files |-> IF n \in bad THEN <<"text", 0>> ELSE files[n]]

Damages(files) == {{n} : n \in DOMAIN files \ {GIST_INDEX_FILENAME}}

InitLoad ==
    /\ library \in LoadLibraries
    /\ bundle \in {<<>>, <<LegacyBundle(library)>>, <<OtherBundle>>}
                    \cup {<<Damaged(splitBooksIntoFiles(library), bad)>> :
                            bad \in Damages(splitBooksIntoFiles(library))}
    /\ loaded = <<>>
    /\ IdleParser /\ IdleStore /\ IdleApp /\ IdleGetFile /\ IdleClean
    /\ IdleTitle /\ IdleTransport /\ IdleMount

SpecLoad == InitLoad /\ [][NextRoundTrip]_vars

LegacyOnly == bundle # <<>> /\ DOMAIN bundle[1] = {LEGACY_FILENAME}

\* C12: the load of a gist whose only file is the single library file of the
\* old version returns the array of books stored in that file, in the same
\* order and with the same content, and the load writes nothing to the gist.
C12_LegacyReturnedUnchanged ==
    /\ [](LegacyOnly /\ loaded # <<>> =>
            /\ loaded[1].ok
            /\ loaded[1].books = JSONparse(bundle[1][LEGACY_FILENAME]))
    /\ [][loaded' # loaded => bundle' = bundle]_vars

\* a gist with only the old library file, holding two books, has been loaded
C12_Witness ==
    /\ LegacyOnly /\ loaded # <<>>
    /\ Len(JSONparse(bundle[1][LEGACY_FILENAME])) = 2

\* the part of C12 that holds: an old library file that the gist API returns
\* whole is returned as it is
C12_SmallLegacy ==
    (LegacyOnly /\ loaded # <<>>
       /\ TextLength(LEGACY_FILENAME, bundle[1][LEGACY_FILENAME]) <= GistInlineLimit) =>
        /\ loaded[1].ok
        /\ loaded[1].books = JSONparse(bundle[1][LEGACY_FILENAME])

\* the gist holds the files of a save of the library, none of them damaged
SavedWhole == bundle # <<>> /\ bundle[1] = splitBooksIntoFiles(library)

WithId(books) == SelectSeq(books, LAMBDA b : b.id # 0)

BlobNames(files) == {n \in DOMAIN files : n[1] \in {"book", "meta", "chunk"}}

\* the files of the books with an id are there, no file belongs to another
\* book, and a load returns the books with an id, in order, as they were
SavedWithId ==
    /\ \A n \in BlobNames(bundle[1]) :
          n[2] # 0 /\ \E k \in 1..Len(library) : library[k].id = n[2]
    /\ \A k \in 1..Len(library) :
          library[k].id # 0 =>
              \/ BookFile(library[k].id) \in DOMAIN bundle[1]
              \/ /\ MetaFile(library[k].id) \in DOMAIN bundle[1]
                 /\ ChunkFile(library[k].id, 0) \in DOMAIN bundle[1]
    /\ loaded # <<>> =>
          /\ loaded[1].ok
          /\ Len(loaded[1].books) = Len(WithId(library))
          /\ \A k \in 1..Len(WithId(library)) :
                /\ loaded[1].books[k].id = WithId(library)[k].id
                /\ loaded[1].books[k].chapters = WithId(library)[k].chapters
                /\ loaded[1].books[k].summaries = WithId(library)[k].summaries
                /\ loaded[1].books[k].images = WithId(library)[k].images

SavedIndex == JSONparse(bundle[1][GIST_INDEX_FILENAME])

\* C18 as stated: a book without id gets no file and no entry of the index, a
\* load returns no record for it, and the books with an id are saved as usual.
C18_NoIdExcluded ==
    SavedWhole =>
        /\ SavedWithId
        /\ \A k \in 1..Len(SavedIndex) : SavedIndex[k].id # 0

\* C18, amended: a book without id gets no book, meta or chunk file, but it
\* does get an entry of the index (the index has one entry for every book, in
\* order); a load returns no record for it, and the books with an id are
\* saved and returned as usual.
C18_NoIdNoBlobButIndexed ==
    SavedWhole =>
        /\ SavedWithId
        /\ Len(SavedIndex) = Len(library)
        /\ \A k \in 1..Len(library) : SavedIndex[k].id = library[k].id

\* a library of a book without id and a book with an id has been saved and
\* loaded
C18_Witness ==
    /\ SavedWhole /\ loaded # <<>>
    /\ Len(library) = 2
    /\ library[1].id = 0 /\ library[2].id # 0
    /\ Len(loaded[1].books) = 1

\* the files of the gist that do not parse
BadFiles == IF bundle = <<>> THEN {}
            ELSE {n \in DOMAIN bundle[1] : ~Parsable(bundle[1][n])}

IndexDriven ==
    /\ bundle # <<>>
    /\ GIST_INDEX_FILENAME \in DOMAIN bundle[1]
    /\ GIST_INDEX_FILENAME \notin BadFiles
    /\ SavedIndex # <<>>

\* the books of the index whose book or meta file is not damaged
Intact(books) ==
    SelectSeq(books, LAMBDA b : /\ b.id # 0
                                /\ BookFile(b.id) \notin BadFiles
                                /\ MetaFile(b.id) \notin BadFiles)

\* the chapters of a book without those of its damaged chunks
RECURSIVE ChaptersLeft(_, _)
ChaptersLeft(book, c) ==
    IF c * chunkSize >= Len(book.chapters) THEN <<>>
    ELSE (IF ChunkFile(book.id, c) \in BadFiles THEN <<>>
          ELSE SubSeq(book.chapters, c * chunkSize + 1,
                      Min((c + 1) * chunkSize, Len(book.chapters))))
         \o ChaptersLeft(book, c + 1)

\* C19: in a load that follows the index, a book, meta or chunk file that
\* does not parse is skipped and the load does not fail: the result holds, in
\* the order of the index, every book whose book or meta file is not the
\* damaged one, and a book with a damaged chunk has the chapters of its other
\* chunks in the order of the chunks.
C19_DamagedFileSkipped ==
    (IndexDriven /\ BadFiles # {} /\ loaded # <<>>) =>
        /\ loaded[1].ok
        /\ Len(loaded[1].books) = Len(Intact(library))
        /\ \A k \in 1..Len(Intact(library)) :
              /\ loaded[1].books[k].id = Intact(library)[k].id
              /\ loaded[1].books[k].chapters = ChaptersLeft(Intact(library)[k], 0)

\* a gist of two books has been loaded with the second chunk of the first,
\* chunked, book damaged
C19_Witness ==
    /\ IndexDriven /\ loaded # <<>>
    /\ Len(library) = 2 /\ library[1].id # 0 /\ library[2].id # 0
    /\ BadFiles = {ChunkFile(library[1].id, 1)}
    /\ Len(loaded[1].books) = 2
    /\ Len(loaded[1].books[1].chapters) = MaxChapters - chunkSize

\* a gist of two books has been loaded with the file of the first book damaged
C19_WitnessBook ==
    /\ IndexDriven /\ loaded # <<>>
    /\ Len(library) = 2 /\ library[2].id # 0
    /\ BadFiles = {BookFile(library[1].id)}
    /\ Len(loaded[1].books) = 1

\* every entry of the loaded map is an entry of the saved book, at the key
\* of the chapter it belonged to, and every entry of the saved map whose
\* chunk was read is in the loaded map
SameChapters(saved, savedMap, got, gotMap) ==
    /\ \A key \in DOMAIN gotMap :
          /\ key < Len(got.chapters)
          /\ \E g \in DOMAIN savedMap :
                /\ savedMap[g] = gotMap[key]
                /\ saved.chapters[g + 1] = got.chapters[key + 1]
    /\ \A g \in DOMAIN savedMap :
          (\/ BookFile(saved.id) \in DOMAIN bundle[1]
           \/ ChunkFile(saved.id, g \div chunkSize) \notin BadFiles) =>
              \E key \in DOMAIN gotMap : gotMap[key] = savedMap[g]

\* C25: in a reassembled chunked book the keys of a chunk are moved by the
\* number of chapters put together before it, so that, also when a chunk is
\* damaged, every summary and image is at the chapter it had in its chunk and
\* every key is below the number of chapters of the reassembled book.
C25_RekeyByRunningTotal ==
    (IndexDriven /\ loaded # <<>>) =>
        \A j \in 1..Len(loaded[1].books) :
            \A k \in 1..Len(library) :
                library[k].id = loaded[1].books[j].id =>
                    /\ SameChapters(library[k], library[k].summaries,
                                    loaded[1].books[j], loaded[1].books[j].summaries)
                    /\ SameChapters(library[k], library[k].images,
                                    loaded[1].books[j], loaded[1].books[j].images)

\* a book of three chunks has been loaded without its damaged second chunk:
\* the summary of chapter 23 is at key 13, with its chapter
C25_Witness ==
    /\ IndexDriven /\ loaded # <<>>
    /\ Len(library) >= 1 /\ library[1].id # 0
    /\ BadFiles = {ChunkFile(library[1].id, 1)}
    /\ Len(loaded[1].books) >= 1
    /\ (MaxChapters - 2 - chunkSize) \in DOMAIN loaded[1].books[1].summaries
    /\ loaded[1].books[1].summaries[MaxChapters - 2 - chunkSize] =
           library[1].summaries[MaxChapters - 2]
    /\ loaded[1].books[1].chapters[MaxChapters - 1 - chunkSize] =
           library[1].chapters[MaxChapters - 1]

\* C20: when the user has no gist, and when the gist has no index file, no
\* old library file and no book, meta or chunk file, loadBooksFromGist
\* returns the empty library and throws no error.
C20_NoDataEmptyLibrary ==
    (loaded # <<>>
       /\ (bundle = <<>>
            \/ ((DOMAIN bundle[1]) \cap {GIST_INDEX_FILENAME, LEGACY_FILENAME} = {}
                /\ BlobNames(bundle[1]) = {}))) =>
        /\ loaded[1].ok
        /\ loaded[1].books = <<>>

\* a gist with only a file that is not of the library has been loaded
C20_Witness ==
    /\ loaded # <<>> /\ bundle = <<OtherBundle>>
    /\ loaded[1].books = <<>>

(***************************************************************************)
(* One load of a gist in which the layouts meet: the files of a saved      *)
(* library whose index file is whole, missing, empty ([] after a           *)
(* clearHistory), lists only the first book (the files of the other were   *)
(* left by a PATCH) or is no JSON; with or without the library file of the *)
(* old version, small or above the inline limit; with or without the       *)
(* book_{id}.json a chunked book had when it was small.                    *)
(***************************************************************************)
LayoutSingle(b) ==
    MakeBook(b, 1, FALSE, [summaries |-> {0}, images |-> {0}, holes |-> {}])

\* a book of two chunks; the text of its first chunk is above the inline limit
LayoutChunked(b) ==
    MakeBook(b, chunkSize + 1, TRUE,
             [summaries |-> {0, chunkSize}, images |-> 0..5, holes |-> {}])

IsChunked(book) == JsonLength(book) > MAX_FILE_SIZE

\* at most MaxBooks books with distinct ids, at most one of them chunked
LayoutLibraries ==
    UNION {{L \in [1..n -> UNION {{LayoutSingle(b), LayoutChunked(b)} : b \in 1..MaxBooks}] :
                /\ \A j, k \in 1..n : j # k => L[j].id # L[k].id
                /\ Cardinality({k \in 1..n : IsChunked(L[k])}) <= 1} :
           n \in 0..MaxBooks}

IndexKinds == {"whole", "none", "empty", "first", "bad"}
LegacyKinds == {"none", "small", "large"}

\* the books of the library file of the old version: their ids are not ids
\* of the library
LegacyBooks(kind) ==
    IF kind = "small" THEN <<LayoutSingle(MaxBooks + 1)>>
    ELSE <<LayoutChunked(MaxBooks + 1), LayoutChunked(MaxBooks + 2)>>

\* book_{id}.json of a chunked book, from the time the book was small
StrayBook(book) == MakeBook(book.id, 1, FALSE, [summaries |-> {}, images |-> {}, holes |-> {}])

WithIndex(files, books, kind) ==
    CASE kind = "whole" -> files
      [] kind = "none" -> [n \in DOMAIN files \ {GIST_INDEX_FILENAME} |-> files[n]]
      [] kind = "empty" -> Put(files, GIST_INDEX_FILENAME, JSONstringify(<<>>))
      [] kind = "first" ->
            Put(files, GIST_INDEX_FILENAME,
                JSONstringify(IF books = <<>> THEN <<>> ELSE <<IndexEntry(books[1])>>))
      [] OTHER -> Put(files, GIST_INDEX_FILENAME, <<"text", 0>>)

WithLegacy(files, kind) ==
    IF kind = "none" THEN files
    ELSE Put(files, LEGACY_FILENAME, JSONstringify(LegacyBooks(kind)))

RECURSIVE WithStray(_, _)
WithStray(files, books) ==
    IF books = <<>> THEN files
    ELSE WithStray(IF IsChunked(Head(books))
                   THEN Put(files, BookFile(Head(books).id),
                            JSONstringify(StrayBook(Head(books))))
                   ELSE files,
                   Tail(books))

LayoutBundle(books, index, legacy, stray) ==
    WithLegacy(WithIndex(IF stray THEN WithStray(splitBooksIntoFiles(books), books)
                         ELSE splitBooksIntoFiles(books),
                         books, index),
               legacy)

InitLayouts ==
    /\ library \in LayoutLibraries
    /\ bundle \in {<<>>} \cup
                  {<<LayoutBundle(library, index, legacy, stray)>> :
                      index \in IndexKinds, legacy \in LegacyKinds, stray \in BOOLEAN}
    /\ loaded = <<>>
    /\ IdleParser /\ IdleStore /\ IdleApp /\ IdleGetFile /\ IdleClean
    /\ IdleTitle /\ IdleTransport /\ IdleMount

SpecLayouts == InitLayouts /\ [][NextRoundTrip]_vars

HasFile(name) == bundle # <<>> /\ name \in DOMAIN bundle[1]

\* the index file is there, is JSON and lists at least one book
IndexWithEntries ==
    /\ HasFile(GIST_INDEX_FILENAME)
    /\ Parsable(bundle[1][GIST_INDEX_FILENAME])
    /\ JSONparse(bundle[1][GIST_INDEX_FILENAME]) # <<>>

\* there is no index file, or it is JSON and lists no book
IndexWithout ==
    /\ bundle # <<>>
    /\ HasFile(GIST_INDEX_FILENAME) =>
          /\ Parsable(bundle[1][GIST_INDEX_FILENAME])
          /\ JSONparse(bundle[1][GIST_INDEX_FILENAME]) = <<>>

\* the old library file is there and below the inline limit
LegacyWhole ==
    /\ HasFile(LEGACY_FILENAME)
    /\ TextLength(LEGACY_FILENAME, bundle[1][LEGACY_FILENAME]) <= GistInlineLimit

LoadedIds == {loaded[1].books[j].id : j \in 1..Len(loaded[1].books)}

\* C24: the load tries the index, then the old library file, then the scan of
\* the file names.  With an index that lists books the result holds only
\* books of the index, as their files give them; the old library file and
\* the files of books the index does not list are ignored.  With an index
\* that lists no book (or no index) the old library file is returned, and
\* without it the books found by the scan.
C24_LayoutOrder ==
    (bundle # <<>> /\ loaded # <<>>) =>
        /\ IndexWithEntries =>
              /\ loaded[1].ok
              /\ LoadedIds = {JSONparse(bundle[1][GIST_INDEX_FILENAME])[k].id :
                                k \in 1..Len(JSONparse(bundle[1][GIST_INDEX_FILENAME]))}
              /\ \A j \in 1..Len(loaded[1].books) :
                    \E k \in 1..Len(library) : loaded[1].books[j] = library[k]
        /\ (IndexWithout /\ LegacyWhole) =>
              /\ loaded[1].ok
              /\ loaded[1].books = JSONparse(bundle[1][LEGACY_FILENAME])
        /\ (IndexWithout /\ ~HasFile(LEGACY_FILENAME)) =>
              /\ loaded[1].ok
              /\ LoadedIds = {library[k].id : k \in 1..Len(library)}

\* a gist with an index that lists only the first of two books, with the old
\* library file, has been loaded: the first book alone is returned
C24_Witness ==
    /\ loaded # <<>> /\ IndexWithEntries /\ HasFile(LEGACY_FILENAME)
    /\ Len(library) = 2
    /\ Len(JSONparse(bundle[1][GIST_INDEX_FILENAME])) = 1
    /\ BlobNames(bundle[1]) # FilesOf(bundle[1], library[1].id)
    /\ loaded[1].books = <<library[1]>>

\* a gist with an empty index and the old library file has been loaded: the
\* books of the old library file are returned
C24_WitnessEmptyIndex ==
    /\ loaded # <<>> /\ HasFile(GIST_INDEX_FILENAME) /\ IndexWithout /\ LegacyWhole
    /\ Len(library) >= 1
    /\ loaded[1].books = JSONparse(bundle[1][LEGACY_FILENAME])

\* a gist with an empty index, without the old library file, has been loaded:
\* the books of the files are returned
C24_WitnessScan ==
    /\ loaded # <<>> /\ HasFile(GIST_INDEX_FILENAME) /\ IndexWithout
    /\ ~HasFile(LEGACY_FILENAME)
    /\ Len(library) = 2 /\ Len(loaded[1].books) = 2

\* the index file is not there, or its text is no JSON
IndexUnreadable ==
    /\ bundle # <<>>
    /\ HasFile(GIST_INDEX_FILENAME) => ~Parsable(bundle[1][GIST_INDEX_FILENAME])

\* C26: when there is no index file or it could not be read, also when its
\* text is no JSON, the load does not fail; it looks for the old library file
\* and, if it is there, returns its array of books.
C26_UnreadableIndexFallsToLegacy ==
    (loaded # <<>> /\ IndexUnreadable /\ LegacyWhole) =>
        /\ loaded[1].ok
        /\ loaded[1].books = JSONparse(bundle[1][LEGACY_FILENAME])

\* the part of C26 that holds: without an index file the old library file is
\* returned
C26_AbsentIndexFallsToLegacy ==
    (loaded # <<>> /\ bundle # <<>> /\ ~HasFile(GIST_INDEX_FILENAME) /\ LegacyWhole) =>
        /\ loaded[1].ok
        /\ loaded[1].books = JSONparse(bundle[1][LEGACY_FILENAME])

\* C27: whatever file a load reads (index, meta, chunk, book or old library
\* file), when the gist API gives it as truncated with a raw_url, the text
\* that is parsed is the text behind raw_url, never the cut inline content.
C27_EveryReadHandlesTruncation ==
    (bundle # <<>> /\ loaded # <<>>) =>
        \A n \in DOMAIN bundle[1] :
            (/\ GistFile(bundle[1], n)[1].truncated
             /\ GistFile(bundle[1], n)[1].raw_url # <<>>
             /\ n = LEGACY_FILENAME => IndexWithout) =>
                ReadContent(bundle[1], n) = <<bundle[1][n]>>

\* the part of C27 that holds: the files read through getFileContent
C27_ReadsThroughGetFileContent ==
    (bundle # <<>> /\ loaded # <<>>) =>
        \A n \in DOMAIN bundle[1] \ {LEGACY_FILENAME} :
            GistFile(bundle[1], n)[1].truncated =>
                ReadContent(bundle[1], n) = <<bundle[1][n]>>

\* a book whose first chunk is above the inline limit has been loaded whole
C27_WitnessChunk ==
    /\ loaded # <<>> /\ IndexWithEntries
    /\ \E k \in 1..Len(library) :
          /\ HasFile(ChunkFile(library[k].id, 0))
          /\ GistFile(bundle[1], ChunkFile(library[k].id, 0))[1].truncated
          /\ \E j \in 1..Len(loaded[1].books) : loaded[1].books[j] = library[k]

\* the load went on to the scan of the file names
ScanUsed == IndexWithout /\ ~HasFile(LEGACY_FILENAME)

\* C28: the books returned by the scan of the file names have ids that differ
\* from each other, whatever the files and the order of their names; a book
\* with meta and chunk files and a book_{id}.json is returned once.
C28_ScanNoDuplicateIds ==
    (loaded # <<>> /\ ScanUsed) =>
        \A j, k \in 1..Len(loaded[1].books) :
            j # k => loaded[1].books[j].id # loaded[1].books[k].id

\* the scan has returned once, in its chunked form, a book that has meta and
\* chunk files and a book_{id}.json
C28_Witness ==
    /\ loaded # <<>> /\ ScanUsed
    /\ \E k \in 1..Len(library) :
          /\ HasFile(BookFile(library[k].id))
          /\ HasFile(MetaFile(library[k].id))
          /\ Cardinality({j \in 1..Len(loaded[1].books) :
                            loaded[1].books[j].id = library[k].id}) = 1
          /\ \E j \in 1..Len(loaded[1].books) : loaded[1].books[j] = library[k]

\* the files of a save of the library without the index file
SavedWithoutIndex ==
    /\ bundle # <<>>
    /\ bundle[1] = WithIndex(splitBooksIntoFiles(library), library, "none")

Books(seq) == {seq[j] : j \in 1..Len(seq)}

\* C29: for a library of books with ids, the scan of the files of a save
\* without the index file returns the same books, with the same chapters,
\* summaries and images, as the load of all the files by the index.
C29_ScanEqualsIndexLoad ==
    (loaded # <<>> /\ SavedWithoutIndex) =>
        /\ loaded[1].ok
        /\ Len(loaded[1].books) = Len(library)
        /\ Books(loaded[1].books) =
               Books(loadBooksFromGist(splitBooksIntoFiles(library), <<>>).books)

\* the files of a single-file book and a chunked book, without the index
\* file, have been scanned
C29_Witness ==
    /\ loaded # <<>> /\ SavedWithoutIndex
    /\ Len(library) = 2
    /\ \E k \in 1..2 : IsChunked(library[k])
    /\ Len(loaded[1].books) = 2

(***************************************************************************)
(* One call of getFileContent on a file of a gist. The texts are told      *)
(* apart by a number; the inline content of a file is empty, the text      *)
(* behind raw_url or the cut text of it. Each of the two fetches of        *)
(* raw_url may fail (a response that is not ok, or a rejected fetch).      *)
(***************************************************************************)
MaxTexts == 2

FileTexts == {<<"text", n>> : n \in 1..MaxTexts}

Contents == {EmptyText} \cup FileTexts \cup {<<"cut", t>> : t \in FileTexts}

GistFiles ==
    {<<>>} \cup {<<[content |-> c, truncated |-> t, raw_url |-> u]>> :
                    c \in Contents, t \in BOOLEAN,
                    u \in {<<>>} \cup {<<x>> : x \in FileTexts}}

InitGetFile ==
    /\ fileArg \in GistFiles
    /\ fetchOk \in [first : BOOLEAN, second : BOOLEAN]
    /\ fileResult = <<>>
    /\ IdleParser /\ IdleRoundTrip /\ IdleStore /\ IdleApp /\ IdleClean
    /\ IdleTitle /\ IdleTransport /\ IdleMount

GetFileContent ==
    /\ fileResult = <<>>
    /\ fileResult' =
         <<getFileContent(fileArg,
                          IF fetchOk.first THEN fetchRaw(fileArg) ELSE <<>>,
                          IF fetchOk.second THEN fetchRaw(fileArg) ELSE <<>>)>>
    /\ UNCHANGED <<fileArg, fetchOk, notGetFileVars>>

NextGetFile == GetFileContent

SpecGetFile == InitGetFile /\ [][NextGetFile]_vars

TruncatedWithUrl ==
    fileArg # <<>> /\ fileArg[1].truncated /\ fileArg[1].raw_url # <<>>

\* C13: for a file with truncated = true and a raw_url, getFileContent returns
\* the content behind raw_url, also when the inline content is not empty; the
\* inline content of a truncated file is never what is returned.
C13_TruncatedUsesRawUrl ==
    (TruncatedWithUrl /\ fileResult # <<>>) =>
        /\ fileResult[1] = fileArg[1].raw_url
        /\ fileResult[1] # <<fileArg[1].content>>

\* the part of C13 that holds: when the fetch of raw_url succeeds, its text
\* is returned whatever the inline content is
C13_FetchedWhenOk ==
    (TruncatedWithUrl /\ fileResult # <<>> /\ fetchOk.first) =>
        fileResult[1] = fileArg[1].raw_url

\* a truncated file with cut inline content has been read while the fetch of
\* its raw_url failed
C13_Witness ==
    /\ TruncatedWithUrl /\ fileResult # <<>>
    /\ fileArg[1].content = <<"cut", fileArg[1].raw_url[1]>>
    /\ ~fetchOk.first

(***************************************************************************)
(* services/storage.ts over services/gist.ts: the calls of two sessions    *)
(* against the gist API.  A call is a sequence of steps, one per remote    *)
(* request; the steps of different calls interleave.                       *)
(*                                                                         *)
(* The gist API: POST /gists creates a gist of the given files; PATCH      *)
(* /gists/{id} with a files object sets the files it names and leaves      *)
(* every file it does not name as it is (a file is deleted only by naming  *)
(* it with null); GET /gists lists the gists, the newest first.            *)
(***************************************************************************)
Sessions == {"s1", "s2"}
OpIds == {"o1", "o2"}
MaxStarted == 3
ReopenIds == {1, 2}

\* cleanBookData: the new index of a kept chapter is the number of kept
\* chapters before it
NewIndex_OldIndex(chs, oldIdx) == oldIdx

NewIndex(chs, oldIdx) ==
    Cardinality({k \in 1..oldIdx : chs[k] # NullChapter})

RemapKeys(map, chs) ==
    LET kept == {old \in DOMAIN map : old < Len(chs) /\ chs[old + 1] # NullChapter}
    IN  [n \in {NewIndex(chs, old) : old \in kept} |->
            map[CHOOSE old \in kept : NewIndex(chs, old) = n]]

cleanBookData(book) ==
    LET validChapters == SelectSeq(book.chapters, LAMBDA ch : ch # NullChapter)
    IN  IF Len(validChapters) # Len(book.chapters)
        THEN [book EXCEPT !.chapters = validChapters,
                          !.summaries = RemapKeys(book.summaries, book.chapters),
                          !.images = RemapKeys(book.images, book.chapters)]
        ELSE book

(***************************************************************************)
(* One call of cleanBookData on a book record: any chapter may be null,    *)
(* and the summaries and images may have any keys, also keys that are no   *)
(* index of a chapter (the type Record<number, ...> allows them).          *)
(***************************************************************************)
MaxCleanChapters == 3

CleanChapterLists ==
    UNION {{[k \in 1..n |-> IF (k - 1) \in holes THEN NullChapter
                            ELSE [title |-> k, size |-> SmallSize]] :
                holes \in SUBSET (0..(n - 1))} : n \in 0..MaxCleanChapters}

CleanBooks ==
    {[id |-> 1, title |-> 1, chapters |-> chs,
      summaries |-> [g \in S |-> [quote |-> g]],
      images |-> [g \in I |-> [base64 |-> g + 1]],
      lastAccessed |-> 1] :
        chs \in CleanChapterLists,
        S \in SUBSET (0..MaxCleanChapters), I \in SUBSET (0..MaxCleanChapters)}

InitClean ==
    /\ bookArg \in {<<b>> : b \in CleanBooks}
    /\ cleanResult = <<>>
    /\ IdleParser /\ IdleRoundTrip /\ IdleStore /\ IdleApp /\ IdleGetFile
    /\ IdleTitle /\ IdleTransport /\ IdleMount

CleanBookData ==
    /\ bookArg # <<>> /\ cleanResult = <<>>
    /\ cleanResult' = <<cleanBookData(bookArg[1])>>
    /\ UNCHANGED <<bookArg, notCleanVars>>

NextClean == CleanBookData

SpecClean == InitClean /\ [][NextClean]_vars

\* the old indices (0-based) of the chapters of a book that are not null
Surviving(book) ==
    {k \in 0..(Len(book.chapters) - 1) : book.chapters[k + 1] # NullChapter}

HasHole(book) == \E k \in 1..Len(book.chapters) : book.chapters[k] = NullChapter

\* the number of surviving chapters before old index k
RankOf(book, k) == Cardinality({j \in Surviving(book) : j < k})

\* the map of the result has, for every surviving chapter with an entry, that
\* entry at the chapter's new index, and nothing else
Rekeyed(book, old, new) ==
    /\ \A k \in Surviving(book) \cap DOMAIN old :
          /\ RankOf(book, k) \in DOMAIN new
          /\ new[RankOf(book, k)] = old[k]
    /\ \A n \in DOMAIN new :
          \E k \in Surviving(book) \cap DOMAIN old : RankOf(book, k) = n

\* C14: for a book with null chapters cleanBookData returns the chapters that
\* are not null in their order, and the summaries and images under the new
\* index of their chapter; the entries of a removed chapter are dropped.
C14_CleanRemaps ==
    (cleanResult # <<>> /\ HasHole(bookArg[1])) =>
        LET book == bookArg[1]
            res == cleanResult[1]
        IN  /\ Len(res.chapters) = Cardinality(Surviving(book))
            /\ \A k \in Surviving(book) :
                  res.chapters[RankOf(book, k) + 1] = book.chapters[k + 1]
            /\ Rekeyed(book, book.summaries, res.summaries)
            /\ Rekeyed(book, book.images, res.images)

\* the chapters [A, null, B] with summaries {0, 2} have been cleaned to the
\* chapters [A, B] with summaries {0, 1}
C14_Witness ==
    /\ cleanResult # <<>>
    /\ Len(bookArg[1].chapters) = 3
    /\ Surviving(bookArg[1]) = {0, 2}
    /\ DOMAIN bookArg[1].summaries = {0, 2}
    /\ Len(cleanResult[1].chapters) = 2
    /\ DOMAIN cleanResult[1].summaries = {0, 1}
    /\ cleanResult[1].summaries[1] = bookArg[1].summaries[2]

\* C15: in the book cleanBookData returns, for a book with or without null
\* chapters, every key of summaries and of images is an index of a chapter
\* of the result, and that chapter is not null.
C15_KeysValidAfterClean ==
    cleanResult # <<>> =>
        LET res == cleanResult[1]
        IN  \A key \in DOMAIN res.summaries \cup DOMAIN res.images :
                /\ 0 <= key /\ key < Len(res.chapters)
                /\ res.chapters[key + 1] # NullChapter

\* the part of C15 that holds: the keys are valid when the book had a null
\* chapter, and when its keys were valid before
C15_KeysValidAfterRemap ==
    (cleanResult # <<>>
       /\ (HasHole(bookArg[1])
            \/ DOMAIN bookArg[1].summaries \cup DOMAIN bookArg[1].images
                 \subseteq 0..(Len(bookArg[1].chapters) - 1))) =>
        LET res == cleanResult[1]
        IN  \A key \in DOMAIN res.summaries \cup DOMAIN res.images :
                /\ 0 <= key /\ key < Len(res.chapters)
                /\ res.chapters[key + 1] # NullChapter

\* findSagaGist: the first SAGA gist of the list, 0 for null
findSagaGist == Len(gists)

\* the response to PATCH /gists/{id}: the named files are set, the others stay
PatchFiles(old, files) ==
    [n \in DOMAIN old \cup DOMAIN files |->
        IF n \in DOMAIN files THEN files[n] ELSE old[n]]

InFlight(o) == ops[o].pc \notin {"idle", "done"}
Free(o) == ~InFlight(o)

IdleOp ==
    [kind |-> "none", pc |-> "idle", sess |-> "s1", arg |-> <<>>, books |-> <<>>,
     gistId |-> 0, seq |-> 0, overlapped |-> FALSE, afterClear |-> FALSE]

\* a call enters slot o; every call in flight at that moment overlaps it
Started(o, kind, s, pc, arg) ==
    [p \in OpIds |->
        IF p = o
        THEN [kind |-> kind, pc |-> pc, sess |-> s, arg |-> arg, books |-> <<>>,
              gistId |-> 0, seq |-> Len(history) + 1,
              overlapped |-> \E q \in OpIds \ {o} : InFlight(q),
              afterClear |-> quietCleared]
        ELSE IF InFlight(p) THEN [ops[p] EXCEPT !.overlapped = TRUE]
        ELSE ops[p]]

\* a new call takes the first free slot
CanStart(o) ==
    /\ Free(o)
    /\ \A p \in OpIds : Free(p) => (o = "o1" \/ p # "o1")
    /\ Len(history) < MaxStarted

InitStore ==
    /\ gists = <<>>
    /\ ops = [o \in OpIds |-> IdleOp]
    /\ sessionBook = [s \in Sessions |-> <<>>]
    /\ now = 1
    /\ history = <<>>
    /\ lastWrite = <<>>
    /\ quietCleared = FALSE
    /\ IdleParser /\ IdleRoundTrip /\ IdleApp /\ IdleGetFile /\ IdleClean
    /\ IdleTitle /\ IdleTransport /\ IdleMount

\* App.handleFileUpload: a parsed book of two chapters is handed to addBook
NewUpload ==
    [id |-> 0, title |-> now,
     chapters |-> <<[title |-> 1, size |-> SmallSize], [title |-> 2, size |-> SmallSize]>>,
     summaries |-> <<>>, images |-> <<>>, lastAccessed |-> now]

StartAddBook(s, o) ==
    /\ CanStart(o)
    /\ ops' = Started(o, "addBook", s, "load", <<NewUpload>>)
    /\ now' = now + 1
    /\ history' = Append(history, [kind |-> "addBook", sess |-> s])
    /\ quietCleared' = FALSE
    /\ UNCHANGED <<gists, sessionBook, lastWrite, notStoreVars>>

\* App: a summary of the next chapter is put into the session's book and the
\* debounce timer fires: updateBook(newBook)
StartUpdateBook(s, o) ==
    /\ CanStart(o)
    /\ sessionBook[s] # <<>>
    /\ LET book == sessionBook[s][1]
           todo == {k \in 0..(Len(book.chapters) - 1) : k \notin DOMAIN book.summaries}
       IN  /\ todo # {}
           /\ LET k == CHOOSE m \in todo : \A n \in todo : m <= n
                  newBook == [book EXCEPT !.summaries =
                                 [g \in DOMAIN book.summaries \cup {k} |->
                                     IF g = k THEN [quote |-> k] ELSE book.summaries[g]]]
              IN  /\ sessionBook' = [sessionBook EXCEPT ![s] = <<newBook>>]
                  /\ ops' = Started(o, "updateBook", s, "load", <<newBook>>)
    /\ history' = Append(history, [kind |-> "updateBook", sess |-> s])
    /\ quietCleared' = FALSE
    /\ UNCHANGED <<gists, now, lastWrite, notStoreVars>>

StartClearHistory(s, o) ==
    /\ CanStart(o)
    /\ ops' = [Started(o, "clearHistory", s, "find", <<>>) EXCEPT ![o].books = <<>>]
    /\ history' = Append(history, [kind |-> "clearHistory", sess |-> s])
    /\ quietCleared' = FALSE
    /\ UNCHANGED <<gists, sessionBook, now, lastWrite, notStoreVars>>

\* App.handleLoadFromHistory(id): getBook(id), then book.lastAccessed =
\* Date.now() and updateBook(book)
StartReopen(s, o, id) ==
    /\ CanStart(o)
    /\ ops' = Started(o, "reopen", s, "getBook", <<id>>)
    /\ now' = now + 1
    /\ history' = Append(history, [kind |-> "reopen", sess |-> s])
    /\ quietCleared' = FALSE
    /\ UNCHANGED <<gists, sessionBook, lastWrite, notStoreVars>>

StartGetAllBooks(s, o) ==
    /\ CanStart(o)
    /\ ops' = Started(o, "getAllBooks", s, "load", <<>>)
    /\ history' = Append(history, [kind |-> "getAllBooks", sess |-> s])
    /\ UNCHANGED <<gists, sessionBook, now, lastWrite, quietCleared, notStoreVars>>

\* return books.map(cleanBookData)
CleanAll(books) == [k \in DOMAIN books |-> cleanBookData(books[k])]

\* the books getAllBooks returns for one order of the keys of gist.files
GetAllBooks(keys) ==
    CleanAll(IF findSagaGist = 0 THEN <<>>
             ELSE loadBooksFromGist(gists[findSagaGist], keys).books)

\* the orders in which the keys of gist.files may be listed in a load
LoadOrders == IF findSagaGist = 0 THEN {<<>>} ELSE KeyOrders(gists[findSagaGist])

\* getBook(id): books.find(b => b.id === id) || null; then, with a book,
\* book.lastAccessed = Date.now() and the call goes on to updateBook(book)
GotBook(op, books) ==
    LET found == {k \in DOMAIN books : books[k].id = op.arg[1]}
        k == CHOOSE m \in found : \A n \in found : m <= n
    IN  IF found = {} THEN [op EXCEPT !.pc = "done", !.arg = <<>>]
        ELSE [op EXCEPT !.pc = "load",
                        !.arg = <<[books[k] EXCEPT !.lastAccessed = now]>>]

OpGetBook(o) ==
    /\ ops[o].pc = "getBook"
    /\ \E keys \in LoadOrders :
          ops' = [ops EXCEPT ![o] = GotBook(ops[o], GetAllBooks(keys))]
    /\ UNCHANGED <<gists, sessionBook, now, history, lastWrite, quietCleared, notStoreVars>>

MaxId_Oldest(books) == IF books = <<>> THEN 0 ELSE books[Len(books)].id

RECURSIVE MaxId(_)
MaxId(books) ==
    IF books = <<>> THEN 0
    ELSE LET m == MaxId(Tail(books)) IN IF Head(books).id > m THEN Head(books).id ELSE m

\* mutant: a book whose id no book of the library has is put in front
UpdatedBooks_Upsert(books, book) ==
    IF \E k \in DOMAIN books : books[k].id = book.id
    THEN [k \in DOMAIN books |-> IF books[k].id = book.id THEN book ELSE books[k]]
    ELSE <<book>> \o books

\* books.map(b => b.id === book.id ? book : b)
UpdatedBooks(books, book) ==
    [k \in DOMAIN books |-> IF books[k].id = book.id THEN book ELSE books[k]]

\* what addBook, updateBook and getAllBooks do with the books of getAllBooks;
\* then the call goes on to the point of its next request
Loaded(op, books) ==
    CASE op.kind = "getAllBooks" ->
            [op EXCEPT !.pc = "done", !.books = books]
      [] op.kind = "addBook" ->
            LET newBook == [op.arg[1] EXCEPT !.id = MaxId(books) + 1]
            IN  [op EXCEPT !.pc = "find", !.arg = <<newBook>>,
                           !.books = <<newBook>> \o books]
      [] op.kind \in {"updateBook", "reopen"} ->
            [op EXCEPT !.pc = "find", !.books = UpdatedBooks(books, op.arg[1])]

\* getAllBooks: findSagaGist, GET /gists/{id}, loadBooksFromGist, cleanBookData
OpLoad(o) ==
    /\ ops[o].pc = "load"
    /\ \E keys \in LoadOrders :
          ops' = [ops EXCEPT ![o] = Loaded(ops[o], GetAllBooks(keys))]
    /\ UNCHANGED <<gists, sessionBook, now, history, lastWrite, quietCleared, notStoreVars>>

\* saveBooksToGist: const gistId = await findSagaGist(githubPAT)
OpFind(o) ==
    /\ ops[o].pc = "find"
    /\ ops' = [ops EXCEPT ![o].pc = "write", ![o].gistId = findSagaGist]
    /\ UNCHANGED <<gists, sessionBook, now, history, lastWrite, quietCleared, notStoreVars>>

\* what the App does when the call returns
Returned(o) ==
    /\ sessionBook' = IF ops[o].kind \in {"addBook", "reopen"}
                      THEN [sessionBook EXCEPT ![ops[o].sess] = ops[o].arg]
                      ELSE sessionBook
    /\ quietCleared' = (ops[o].kind = "clearHistory" /\ ~ops[o].overlapped
                        /\ Len(history) = ops[o].seq)
    /\ lastWrite' = <<[books |-> ops[o].books, seq |-> ops[o].seq]>>
    /\ ops' = [ops EXCEPT ![o].pc = "done"]

\* updateGist: PATCH /gists/{gistId} with the files of splitBooksIntoFiles
OpPatch(o) ==
    /\ ops[o].pc = "write"
    /\ ops[o].gistId # 0
    /\ gists' = [gists EXCEPT ![ops[o].gistId] =
                    PatchFiles(@, splitBooksIntoFiles(ops[o].books))]
    /\ Returned(o)
    /\ UNCHANGED <<now, history, notStoreVars>>

\* createSagaGist: POST /gists with the files of splitBooksIntoFiles
OpCreate(o) ==
    /\ ops[o].pc = "write"
    /\ ops[o].gistId = 0
    /\ gists' = Append(gists, splitBooksIntoFiles(ops[o].books))
    /\ Returned(o)
    /\ UNCHANGED <<now, history, notStoreVars>>

NextStore ==
    \/ \E s \in Sessions, o \in OpIds : StartAddBook(s, o)
    \/ \E s \in Sessions, o \in OpIds : StartUpdateBook(s, o)
    \/ \E s \in Sessions, o \in OpIds : StartClearHistory(s, o)
    \/ \E s \in Sessions, o \in OpIds : StartGetAllBooks(s, o)
    \/ \E s \in Sessions, o \in OpIds, id \in ReopenIds : StartReopen(s, o, id)
    \/ \E o \in OpIds : OpGetBook(o)
    \/ \E o \in OpIds : OpLoad(o)
    \/ \E o \in OpIds : OpFind(o)
    \/ \E o \in OpIds : OpPatch(o)
    \/ \E o \in OpIds : OpCreate(o)

SpecStore == InitStore /\ [][NextStore]_vars

\* what a full load of the remote store returns, for each order of the keys
RemoteLoads ==
    IF findSagaGist = 0 THEN {<<>>}
    ELSE {loadBooksFromGist(gists[findSagaGist], keys).books :
            keys \in KeyOrders(gists[findSagaGist])}

AllReturned == \A o \in OpIds : Free(o)

(***************************************************************************)
(* The same calls made one at a time: a call starts only when every call   *)
(* before it has returned.                                                 *)
(***************************************************************************)
NextSequential ==
    \/ AllReturned /\ \E s \in Sessions, o \in OpIds : StartAddBook(s, o)
    \/ AllReturned /\ \E s \in Sessions, o \in OpIds : StartUpdateBook(s, o)
    \/ AllReturned /\ \E s \in Sessions, o \in OpIds : StartClearHistory(s, o)
    \/ AllReturned /\ \E s \in Sessions, o \in OpIds : StartGetAllBooks(s, o)
    \/ AllReturned /\ \E s \in Sessions, o \in OpIds, id \in ReopenIds :
                        StartReopen(s, o, id)
    \/ \E o \in OpIds : OpGetBook(o)
    \/ \E o \in OpIds : OpLoad(o)
    \/ \E o \in OpIds : OpFind(o)
    \/ \E o \in OpIds : OpPatch(o)
    \/ \E o \in OpIds : OpCreate(o)

SpecSequential == InitStore /\ [][NextSequential]_vars

HistoryKinds == {history[k].kind : k \in DOMAIN history}

\* C16: an addBook gives the new book the largest id of the books of the
\* library plus one (1 for an empty library), and after addBook, updateBook
\* and clearHistory calls made one at a time the stored books have positive
\* ids that differ from each other.
C16_DistinctPositiveIds ==
    /\ \A o \in OpIds :
          (ops[o].kind = "addBook" /\ ops[o].pc \in {"find", "write"}) =>
              \A books \in RemoteLoads :
                  /\ \A k \in DOMAIN books : ops[o].arg[1].id > books[k].id
                  /\ \/ ops[o].arg[1].id = 1 /\ books = <<>>
                     \/ \E k \in DOMAIN books : ops[o].arg[1].id = books[k].id + 1
    /\ AllReturned =>
          \A books \in RemoteLoads :
              /\ \A k \in DOMAIN books : books[k].id > 0
              /\ \A j, k \in DOMAIN books : j # k => books[j].id # books[k].id

\* three books have been added one after the other
C16_Witness ==
    /\ AllReturned
    /\ Len(history) = 3 /\ HistoryKinds = {"addBook"}
    /\ \E books \in RemoteLoads : Len(books) = 3

\* a book has been added after a clearHistory that left the file of an older
\* book in the gist
C16_WitnessAfterClear ==
    /\ AllReturned
    /\ Len(history) = 3
    /\ history[2].kind = "clearHistory" /\ history[3].kind = "addBook"
    /\ \E books \in RemoteLoads : Len(books) = 2

\* C17: after addBook and updateBook calls made one at a time, among them the
\* updateBook of a book reopened from the history, getAllBooks returns the
\* books with lastAccessed never increasing along the list.
C17_OrderedByRecency ==
    (AllReturned /\ HistoryKinds \subseteq {"addBook", "updateBook", "reopen"}) =>
        \A books \in RemoteLoads :
            \A j, k \in DOMAIN books :
                j < k => books[j].lastAccessed >= books[k].lastAccessed

\* the part of C17 that holds: addBook puts the new book first, so without a
\* reopened book the list is in the order of recency
C17_OrderedWithoutReopen ==
    (AllReturned /\ HistoryKinds \subseteq {"addBook", "updateBook"}) =>
        \A books \in RemoteLoads :
            \A j, k \in DOMAIN books :
                j < k => books[j].lastAccessed >= books[k].lastAccessed

\* C2: after a clearHistory that ran alone has returned, a getAllBooks started
\* before any other save returns the empty library, and after an addBook
\* started then (and run alone) the library is the new book only.
C2_ClearedStaysCleared ==
    \A o \in OpIds :
        (ops[o].pc = "done" /\ ops[o].afterClear /\ ~ops[o].overlapped) =>
            /\ ops[o].kind = "getAllBooks" => ops[o].books = <<>>
            /\ (ops[o].kind = "addBook" /\ ops[o].seq = Len(history)) =>
                    RemoteLoads = {ops[o].arg}

\* C4: two updateBook calls of one session for the same book overlap, the
\* session has made no other call since its addBook and the other session
\* none at all; once both have returned, the remote store holds the book of
\* the call started later.
C4_LaterSaveSupersedes ==
    \A o1, o2 \in OpIds :
        (/\ AllReturned
         /\ ops[o1].kind = "updateBook" /\ ops[o2].kind = "updateBook"
         /\ ops[o1].seq < ops[o2].seq
         /\ ops[o2].seq = Len(history)
         /\ ops[o1].overlapped /\ ops[o2].overlapped
         /\ ops[o1].arg[1].id = ops[o2].arg[1].id
         /\ \A k \in DOMAIN history :
               /\ history[k].sess = ops[o1].sess
               /\ history[k].kind \in {"addBook", "updateBook"})
        => \A books \in RemoteLoads :
              \E k \in DOMAIN books : books[k] = ops[o2].arg[1]

\* C5: two sessions save to the same gist in overlapping calls; once both have
\* returned, a full load returns exactly the library of the write that reached
\* the gist last.
C5_LastWriteWins ==
    \A o1, o2 \in OpIds :
        (/\ AllReturned
         /\ o1 # o2
         /\ ops[o1].sess # ops[o2].sess
         /\ ops[o1].kind # "getAllBooks" /\ ops[o2].kind # "getAllBooks"
         /\ ops[o1].overlapped /\ ops[o2].overlapped
         /\ ops[o1].gistId # 0 /\ ops[o1].gistId = ops[o2].gistId
         /\ {ops[o1].seq, ops[o2].seq} = {Len(history) - 1, Len(history)})
        => RemoteLoads = {lastWrite[1].books}

\* C6: after a PATCH of an existing gist with the files of a library, the
\* files of the gist are exactly the files of splitBooksIntoFiles(library).
C6_SaveOverwritesBundle ==
    [][ \A o \in OpIds :
            (ops[o].pc = "write" /\ ops'[o].pc = "done" /\ ops[o].gistId # 0)
            => gists'[ops[o].gistId] = splitBooksIntoFiles(ops[o].books) ]_vars

(***************************************************************************)
(* One loadBooksFromGist or saveBooksToGist over a transport that may      *)
(* fail: each request (GET /gists, GET /gists/{id}, POST /gists, PATCH     *)
(* /gists/{id}) is answered, is answered with a status that is not ok, or  *)
(* is rejected (a network error).  library holds the books to save, bundle *)
(* the files of the user's SAGA gist, if there is one.                     *)
(***************************************************************************)
MaxRequests == 3

Outcomes == {"ok", "status", "network"}

LOAD_ERROR == "Failed to load library from GitHub. Please check your PAT and try again."
SAVE_ERROR == "Failed to save library to GitHub. Please check your PAT and try again."

\* the catch block of the exported function: one new Error to the caller
ErrorOf(kind) == IF kind = "load" THEN LOAD_ERROR ELSE SAVE_ERROR

\* mutant: the failed request is sent again
AfterThrow_Retry(c) == c

\* an error thrown in the try block ends the call
AfterThrow(c) == [c EXCEPT !.pc = "done"]

InitTransport ==
    /\ library \in LayoutLibraries
    /\ bundle \in {<<>>} \cup
                  {<<LayoutBundle(library, index, "none", FALSE)>> :
                      index \in {"whole", "bad"}}
    /\ loaded = <<>>
    /\ gcall \in {[kind |-> k, pc |-> "find", gistId |-> 0] : k \in {"load", "save"}}
    /\ requests = <<>>
    /\ errors = <<>>
    /\ IdleParser /\ IdleStore /\ IdleApp /\ IdleGetFile /\ IdleClean
    /\ IdleTitle /\ IdleMount

\* a request that failed: the helper rethrows, the outer catch throws the
\* library-level error; a load returns nothing
RequestFailed(req, o) ==
    /\ requests' = Append(requests, [req |-> req, outcome |-> o])
    /\ errors' = Append(errors, ErrorOf(gcall.kind))
    /\ gcall' = AfterThrow(gcall)
    /\ loaded' = IF gcall.kind = "load"
                 THEN <<[ok |-> FALSE, books |-> <<>>]>> ELSE loaded
    /\ UNCHANGED <<library, bundle>>

\* findSagaGist: GET /gists
TFind(o) ==
    /\ gcall.pc = "find"
    /\ Len(requests) < MaxRequests
    /\ IF o # "ok" THEN RequestFailed("find", o)
       ELSE /\ requests' = Append(requests, [req |-> "find", outcome |-> o])
            /\ gcall' = [gcall EXCEPT
                  !.gistId = IF bundle = <<>> THEN 0 ELSE 1,
                  !.pc = IF gcall.kind = "load"
                         THEN (IF bundle = <<>> THEN "done" ELSE "fetch")
                         ELSE (IF bundle = <<>> THEN "create" ELSE "patch")]
            /\ loaded' = IF gcall.kind = "load" /\ bundle = <<>>
                         THEN <<[ok |-> TRUE, books |-> <<>>]>> ELSE loaded
            /\ UNCHANGED <<library, bundle, errors>>
    /\ UNCHANGED notTransportVars

\* loadBooksFromGist: GET /gists/{id} and the reading of its files
TFetch(o) ==
    /\ gcall.pc = "fetch"
    /\ Len(requests) < MaxRequests
    /\ IF o # "ok" THEN RequestFailed("fetch", o)
       ELSE /\ requests' = Append(requests, [req |-> "fetch", outcome |-> o])
            /\ \E keys \in KeyOrders(bundle[1]) :
                  loaded' = <<loadBooksFromGist(bundle[1], keys)>>
            /\ errors' = IF IndexUnparsable(bundle[1])
                         THEN Append(errors, ErrorOf(gcall.kind)) ELSE errors
            /\ gcall' = [gcall EXCEPT !.pc = "done"]
            /\ UNCHANGED <<library, bundle>>
    /\ UNCHANGED notTransportVars

\* createSagaGist: POST /gists
TCreate(o) ==
    /\ gcall.pc = "create"
    /\ Len(requests) < MaxRequests
    /\ IF o # "ok" THEN RequestFailed("create", o)
       ELSE /\ requests' = Append(requests, [req |-> "create", outcome |-> o])
            /\ bundle' = <<splitBooksIntoFiles(library)>>
            /\ gcall' = [gcall EXCEPT !.pc = "done"]
            /\ UNCHANGED <<library, loaded, errors>>
    /\ UNCHANGED notTransportVars

\* updateGist: PATCH /gists/{id}
TPatch(o) ==
    /\ gcall.pc = "patch"
    /\ Len(requests) < MaxRequests
    /\ IF o # "ok" THEN RequestFailed("patch", o)
       ELSE /\ requests' = Append(requests, [req |-> "patch", outcome |-> o])
            /\ bundle' = <<PatchFiles(bundle[1], splitBooksIntoFiles(library))>>
            /\ gcall' = [gcall EXCEPT !.pc = "done"]
            /\ UNCHANGED <<library, loaded, errors>>
    /\ UNCHANGED notTransportVars

NextTransport ==
    \/ \E o \in Outcomes : TFind(o)
    \/ \E o \in Outcomes : TFetch(o)
    \/ \E o \in Outcomes : TCreate(o)
    \/ \E o \in Outcomes : TPatch(o)

SpecTransport == InitTransport /\ [][NextTransport]_vars

FailedRequests == {k \in DOMAIN requests : requests[k].outcome # "ok"}

\* C21: a transport failure (a status that is not ok, or a network error) on
\* find, fetch, create or patch makes the load or save fail with exactly one
\* library-level error; the failed request was sent once and nothing was
\* sent after it, and the load returns no books
C21_TransportFailureIsOneError ==
    FailedRequests # {} =>
        /\ gcall.pc = "done"
        /\ errors = <<ErrorOf(gcall.kind)>>
        /\ FailedRequests = {Len(requests)}
        /\ \A j, k \in DOMAIN requests : j # k => requests[j].req # requests[k].req
        /\ gcall.kind = "load" => loaded = <<[ok |-> FALSE, books |-> <<>>]>>
        /\ gcall.kind = "save" => loaded = <<>>

\* a load of a gist that holds books, whose GET /gists/{id} was rejected
\* after the gist was found
C21_Witness ==
    /\ gcall.kind = "load" /\ gcall.pc = "done"
    /\ Len(requests) = 2
    /\ requests[1] = [req |-> "find", outcome |-> "ok"]
    /\ requests[2] = [req |-> "fetch", outcome |-> "network"]
    /\ bundle # <<>> /\ IndexListsBooks(bundle[1])
    /\ errors = <<LOAD_ERROR>>

\* a save whose PATCH was answered with a status that is not ok
C21_WitnessSave ==
    /\ gcall.kind = "save" /\ gcall.pc = "done"
    /\ Len(requests) = 2
    /\ requests[2] = [req |-> "patch", outcome |-> "status"]
    /\ errors = <<SAVE_ERROR>>

\* a save whose POST was rejected: no gist was created
C21_WitnessCreate ==
    /\ gcall.kind = "save" /\ gcall.pc = "done"
    /\ Len(requests) = 2
    /\ requests[2] = [req |-> "create", outcome |-> "network"]
    /\ bundle = <<>>
    /\ errors = <<SAVE_ERROR>>

(***************************************************************************)
(* A gist of the old version (the single library file), loaded, then saved *)
(* into once (saveBooksToGist finds the gist and calls updateGist), then   *)
(* loaded again.  library holds the books of the save; it is empty when    *)
(* the save is the one of clearHistory.                                    *)
(***************************************************************************)
InitMigrate ==
    /\ library \in Libraries
    /\ bundle \in {<<LegacyBundle(LegacyBooks(kind))>> : kind \in {"small", "large"}}
    /\ loaded = <<>>
    /\ IdleParser /\ IdleStore /\ IdleApp /\ IdleGetFile /\ IdleClean
    /\ IdleTitle /\ IdleTransport /\ IdleMount

\* saveBooksToGist on the gist that was loaded: the PATCH of updateGist
RT_Update ==
    /\ bundle # <<>> /\ loaded # <<>>
    /\ GIST_INDEX_FILENAME \notin DOMAIN bundle[1]
    /\ bundle' = <<PatchFiles(bundle[1], splitBooksIntoFiles(library))>>
    /\ loaded' = <<>>
    /\ UNCHANGED <<library, notRoundTripVars>>

NextMigrate == RT_Load \/ RT_Update

SpecMigrate == InitMigrate /\ [][NextMigrate]_vars

\* the files of the new layout of the saved library are in the gist
NewLayoutWritten ==
    \A n \in DOMAIN splitBooksIntoFiles(library) :
        n \in DOMAIN bundle[1] /\ bundle[1][n] = splitBooksIntoFiles(library)[n]

\* the load returned the saved library
LoadedIsLibrary ==
    /\ loaded[1].ok
    /\ Len(loaded[1].books) = Len(library)
    /\ \A k \in 1..Len(library) :
          /\ loaded[1].books[k].id = library[k].id
          /\ loaded[1].books[k].chapters = library[k].chapters
          /\ loaded[1].books[k].summaries = library[k].summaries
          /\ loaded[1].books[k].images = library[k].images

\* C32: loading a gist in the old single-file layout writes nothing to it;
\* the first save after the load writes the new layout (index and files per
\* book), and every load after that save returns the library that was
\* saved: the old library file no longer determines a load result
C32_MigratedOnFirstSave ==
    /\ [][loaded' # <<>> => bundle' = bundle]_vars
    /\ [][bundle' # bundle => GIST_INDEX_FILENAME \in DOMAIN bundle'[1]]_vars
    /\ [](HasFile(GIST_INDEX_FILENAME) =>
            /\ NewLayoutWritten
            /\ loaded # <<>> => LoadedIsLibrary)

\* C32, the part that holds: the load writes nothing, the save writes the
\* new layout, and a load after the save of a library that has a book
\* returns that library
C32_MigratedUnlessEmpty ==
    /\ [][loaded' # <<>> => bundle' = bundle]_vars
    /\ [][bundle' # bundle => GIST_INDEX_FILENAME \in DOMAIN bundle'[1]]_vars
    /\ [](HasFile(GIST_INDEX_FILENAME) =>
            /\ NewLayoutWritten
            /\ (loaded # <<>> /\ library # <<>>) => LoadedIsLibrary)

\* a library with a book was saved into the gist of the old version and
\* loaded again, the old library file still being in the gist
C32_Witness ==
    /\ HasFile(GIST_INDEX_FILENAME) /\ HasFile(LEGACY_FILENAME)
    /\ loaded # <<>> /\ library # <<>>
    /\ loaded[1].books # JSONparse(bundle[1][LEGACY_FILENAME])

\* the empty library was saved and the load after it returned the books of
\* the old library file
C32_WitnessCleared ==
    /\ HasFile(GIST_INDEX_FILENAME) /\ LegacyWhole
    /\ library = <<>>
    /\ loaded # <<>> /\ loaded[1].books = JSONparse(bundle[1][LEGACY_FILENAME])
    /\ loaded[1].books # <<>>

(***************************************************************************)
(* A library saved into a new gist, saved again after one of its books     *)
(* changed (the book may have grown above MAX_FILE_SIZE or shrunk below    *)
(* it), then loaded.  library holds the books of the most recent save.     *)
(***************************************************************************)
\* a book of one or two small chapters, or of chunkSize + 1 or
\* 2 * chunkSize + 1 chapters of which the first is large
VersionsOf(b) ==
    { LayoutSingle(b),
      MakeBook(b, 2, FALSE, [summaries |-> {1}, images |-> {}, holes |-> {}]),
      LayoutChunked(b),
      MakeBook(b, 2 * chunkSize + 1, TRUE,
               [summaries |-> {2 * chunkSize}, images |-> {1}, holes |-> {}]) }

VersionLibraries ==
    UNION {{L \in [1..n -> UNION {VersionsOf(b) : b \in 1..MaxBooks}] :
                \A j, k \in 1..n : j # k => L[j].id # L[k].id} :
           n \in 1..MaxBooks}

InitRelayout ==
    /\ library \in VersionLibraries
    /\ bundle = <<>>
    /\ loaded = <<>>
    /\ IdleParser /\ IdleStore /\ IdleApp /\ IdleGetFile /\ IdleClean
    /\ IdleTitle /\ IdleTransport /\ IdleMount

\* updateBook with another version of a book of the library: the PATCH of
\* updateGist with the files of the changed library
RT_Resave ==
    /\ bundle # <<>> /\ loaded = <<>>
    /\ bundle[1] = splitBooksIntoFiles(library)
    /\ \E k \in DOMAIN library : \E v \in VersionsOf(library[k].id) \ {library[k]} :
          /\ library' = [library EXCEPT ![k] = v]
          /\ bundle' = <<PatchFiles(bundle[1], splitBooksIntoFiles(library'))>>
    /\ UNCHANGED <<loaded, notRoundTripVars>>

NextRelayout == RT_Save \/ RT_Resave \/ RT_Load

SpecRelayout == InitRelayout /\ [][NextRelayout]_vars

\* the gist holds book_{id}.json as well as book_{id}_meta.json
BothLayouts(id) == HasFile(BookFile(id)) /\ HasFile(MetaFile(id))

\* the book with this id was saved last as one file
LastSavedSingle(id) ==
    \E k \in DOMAIN library : library[k].id = id /\ ~IsChunked(library[k])

\* C34: when a book saved in the chunked layout is saved again to the same
\* gist in the single-file layout, or the reverse, the next load returns the
\* chapters, summaries and images of the most recent save
C34_LoadAfterLayoutChange ==
    (loaded # <<>> /\ \E k \in DOMAIN library : BothLayouts(library[k].id))
        => LoadedIsLibrary

\* C34, the part that holds: the most recent save is returned when no book
\* went from the chunked layout to the single-file layout, also when a
\* chunked book was saved again with fewer chunks
C34_LoadAfterGrowth ==
    (loaded # <<>> /\ \A k \in DOMAIN library :
                        BothLayouts(library[k].id) => IsChunked(library[k]))
        => LoadedIsLibrary

\* a book went from one file to chunks and the load returned it as saved
C34_Witness ==
    /\ loaded # <<>>
    /\ \E k \in DOMAIN library : BothLayouts(library[k].id) /\ IsChunked(library[k])
    /\ \A k \in DOMAIN library : BothLayouts(library[k].id) => IsChunked(library[k])
    /\ LoadedIsLibrary

\* a book went from chunks to one file and the load returned the chapters
\* of the chunks
C34_WitnessStale ==
    /\ loaded # <<>>
    /\ \E k \in DOMAIN library :
          /\ BothLayouts(library[k].id) /\ ~IsChunked(library[k])
          /\ Len(loaded[1].books) >= k
          /\ loaded[1].books[k].id = library[k].id
          /\ Len(loaded[1].books[k].chapters) > Len(library[k].chapters)

(***************************************************************************)
(* The application component (App.tsx): the open book, the summary streams *)
(* and the debounced save.                                                 *)
(*                                                                         *)
(* Time is the clock of the page. A timer set by setTimeout(f, 2000) runs  *)
(* f once, when its 2000 ms have passed and before any other event is      *)
(* handled; clearTimeout of a timer that has run, or of null, does         *)
(* nothing. The library service is taken here as a map from id to book     *)
(* which updateBook writes at once (its requests are the subject of        *)
(* SpecStore).                                                             *)
(***************************************************************************)
DebounceMs == 2000
TickMs == 1000
MaxClock == 3000
MaxUpdates == 3
AppChapters == 2
MaxStreams == 2
AppBookIds == {1, 2}

NoTimerDue == \A t \in timers : clock < t.due

\* if (saveTimerRef.current !== null) clearTimeout(saveTimerRef.current);
\* saveTimerRef.current = window.setTimeout(() => storage.updateBook(newBook), 2000)
\* (the same lines in updateCurrentBook, which nothing calls, and in
\* summarizeChapterByIndex)
DebounceSave(newBook) ==
    /\ timers' = {t \in timers : t.id # saveTimerRef}
                    \cup {[id |-> saveTimerRef + 1, due |-> clock + DebounceMs,
                           book |-> newBook]}
    /\ saveTimerRef' = saveTimerRef + 1

\* (history) an update belongs to the burst of the update before it when it
\* follows that update within the window; what it did is noted as its effect
InWindow == bursts # <<>> /\ clock - bursts[Len(bursts)].last < DebounceMs

Noted(newBook, effect) ==
    bursts' = IF InWindow
              THEN [bursts EXCEPT ![Len(bursts)] =
                       [last |-> clock, state |-> newBook,
                        effects |-> @.effects \cup {effect},
                        timers |-> @.timers \cup {saveTimerRef + 1}]]
              ELSE Append(bursts, [last |-> clock, state |-> newBook,
                                   effects |-> {effect},
                                   timers |-> {saveTimerRef + 1}])

InitApp ==
    /\ currentBook = <<>>
    /\ processingChapterIndex = -1
    /\ saveTimerRef = 0
    /\ timers = {}
    /\ streams = {}
    /\ stored = [id \in AppBookIds |-> [id |-> id, summaries |-> <<>>]]
    /\ clock = 0
    /\ calls = <<>>
    /\ bursts = <<>>
    /\ IdleParser /\ IdleRoundTrip /\ IdleStore /\ IdleGetFile /\ IdleClean
    /\ IdleTitle /\ IdleTransport /\ IdleMount

\* handleLoadFromHistory: getBook, updateBook, setCurrentBook (the books are
\* taken without lastAccessed, which nothing in the component reads)
handleLoadFromHistory(id) ==
    /\ NoTimerDue
    /\ currentBook' = <<stored[id]>>
    /\ UNCHANGED <<processingChapterIndex, saveTimerRef, timers, streams, stored,
                   clock, calls, bursts, notAppVars>>

handleBackToLibrary ==
    /\ NoTimerDue
    /\ currentBook # <<>>
    /\ currentBook' = <<>>
    /\ UNCHANGED <<processingChapterIndex, saveTimerRef, timers, streams, stored,
                   clock, calls, bursts, notAppVars>>

\* summarizeChapterByIndex up to summarizeChapterStream(chapter.content)
summarizeChapterByIndex(index) ==
    /\ NoTimerDue
    /\ currentBook # <<>>
    /\ index \notin DOMAIN currentBook[1].summaries
    /\ processingChapterIndex # index
    /\ Cardinality(streams) < MaxStreams
    /\ processingChapterIndex' = index
    /\ streams' = streams \cup {[index |-> index, chapter |-> <<currentBook[1].id, index>>]}
    /\ UNCHANGED <<currentBook, saveTimerRef, timers, stored, clock, calls, bursts,
                   notAppVars>>

\* summarizeChapterByIndex from the end of the stream on
summaryStreamEnds(st) ==
    /\ NoTimerDue
    /\ st \in streams
    /\ streams' = streams \ {st}
    /\ processingChapterIndex' =
            IF processingChapterIndex = st.index THEN -1 ELSE processingChapterIndex
    /\ IF currentBook = <<>>
       THEN UNCHANGED <<currentBook, saveTimerRef, timers, bursts>>
       ELSE /\ saveTimerRef < MaxUpdates
            /\ LET prevBook == currentBook[1]
                   updatedBook == [prevBook EXCEPT !.summaries =
                        (st.index :> [of |-> st.chapter]) @@ prevBook.summaries]
               IN  /\ DebounceSave(updatedBook)
                   /\ currentBook' = <<updatedBook>>
                   /\ Noted(updatedBook, [id |-> prevBook.id, index |-> st.index])
    /\ UNCHANGED <<stored, clock, calls, notAppVars>>

\* summarizeChapterByIndex when the stream throws or yields nothing
summaryStreamFails(st) ==
    /\ NoTimerDue
    /\ st \in streams
    /\ streams' = streams \ {st}
    /\ processingChapterIndex' =
            IF processingChapterIndex = st.index THEN -1 ELSE processingChapterIndex
    /\ UNCHANGED <<currentBook, saveTimerRef, timers, stored, clock, calls, bursts,
                   notAppVars>>

\* the callback of the save timer: storage.updateBook(newBook)
TimerFires(t) ==
    /\ t \in timers
    /\ t.due <= clock
    /\ timers' = timers \ {t}
    /\ stored' = [stored EXCEPT ![t.book.id] = t.book]
    /\ calls' = Append(calls, [book |-> t.book, timer |-> t.id])
    /\ UNCHANGED <<currentBook, processingChapterIndex, saveTimerRef, streams, clock,
                   bursts, notAppVars>>

Tick ==
    /\ NoTimerDue
    /\ clock + TickMs <= MaxClock
    /\ clock' = clock + TickMs
    /\ UNCHANGED <<currentBook, processingChapterIndex, saveTimerRef, timers, streams,
                   stored, calls, bursts, notAppVars>>

NextApp ==
    \/ \E id \in AppBookIds : handleLoadFromHistory(id)
    \/ handleBackToLibrary
    \/ \E index \in 0..(AppChapters - 1) : summarizeChapterByIndex(index)
    \/ \E st \in streams : summaryStreamEnds(st)
    \/ \E st \in streams : summaryStreamFails(st)
    \/ \E t \in timers : TimerFires(t)
    \/ Tick

SpecApp == InitApp /\ [][NextApp]_vars

\* the updateBook calls that the timers of burst n have started
TimerCallsOf(n) == {c \in DOMAIN calls : calls[c].timer \in bursts[n].timers}

\* the window after the last update of burst n has passed
Closed(n) == bursts[n].last + DebounceMs <= clock /\ NoTimerDue

Contains(book, e) == book.id = e.id /\ e.index \in DOMAIN book.summaries

\* C3: at most one save timer is pending; for every burst of updates at most
\* one updateBook is started, exactly one once the window after its last
\* update has passed, and the book it carries is the book after the last
\* update of the burst and contains what every update of the burst did.
C3_DebounceCoalesces ==
    /\ Cardinality(timers) <= 1
    /\ \A n \in DOMAIN bursts :
        /\ Cardinality(TimerCallsOf(n)) <= 1
        /\ Closed(n) => Cardinality(TimerCallsOf(n)) = 1
        /\ \A c \in TimerCallsOf(n) :
            /\ calls[c].book = bursts[n].state
            /\ \A e \in bursts[n].effects : Contains(calls[c].book, e)

(***************************************************************************)
(* The component with its unmount: the cleanup of the effect runs once,    *)
(* and nothing of the component runs after it.                             *)
(***************************************************************************)
\* return () => { if (saveTimerRef.current !== null) clearTimeout(saveTimerRef.current); }
Unmount ==
    /\ mounted /\ NoTimerDue
    /\ mounted' = FALSE
    /\ timers' = {t \in timers : t.id # saveTimerRef}
    /\ UNCHANGED <<currentBook, processingChapterIndex, saveTimerRef, streams,
                   stored, clock, calls, bursts>>
    /\ UNCHANGED <<parserVars, roundTripVars, storeVars, getFileVars, cleanVars,
                   titleVars, transportVars>>

NextUnmount == (mounted /\ NextApp) \/ Unmount

SpecUnmount == InitApp /\ [][NextUnmount]_vars

\* the save that is pending: the timer saveTimerRef names, if it has not run
PendingSaves == {t \in timers : t.id = saveTimerRef}

\* C33: when the component unmounts while a debounced save is pending, the
\* pending save is flushed: the latest book state is persisted
C33_UnmountFlushesPendingSave ==
    [][(mounted /\ ~mounted') =>
          \A t \in PendingSaves : stored'[t.book.id] = t.book]_vars

\* C33, what holds instead: the unmount cancels the pending save; no timer
\* is left and the store is as it was
C33_UnmountCancelsPendingSave ==
    [][(mounted /\ ~mounted') => (timers' = {} /\ stored' = stored)]_vars

\* the component was unmounted with a save pending: the open book has a
\* summary that the store has not, and no timer is left to save it
C33_Witness ==
    /\ ~mounted
    /\ currentBook # <<>>
    /\ currentBook[1].summaries # <<>>
    /\ stored[currentBook[1].id] # currentBook[1]
    /\ timers = {}
    /\ calls = <<>>

\* every summary of the book was made from the chapter it is keyed by
OwnSummaries(book) ==
    \A index \in DOMAIN book.summaries :
        book.summaries[index].of = <<book.id, index>>

\* C35: a summary made from chapter i of book A is only ever recorded in
\* book A at key i and saved as part of book A, also when the user leaves A
\* and opens B while the stream is running: it is never written into the
\* open or the stored record of B
C35_SummaryStaysInItsBook ==
    /\ \A k \in DOMAIN currentBook : OwnSummaries(currentBook[k])
    /\ \A t \in timers : OwnSummaries(t.book)
    /\ \A c \in DOMAIN calls : OwnSummaries(calls[c].book)
    /\ \A id \in AppBookIds : OwnSummaries(stored[id])

\* C35, the part that holds: a summary is recorded at the key of the chapter
\* index it was asked for, and it is lost (not misfiled) when its stream
\* ends while no book is open
C35_KeyIsChapterIndex ==
    /\ \A k \in DOMAIN currentBook : \A index \in DOMAIN currentBook[k].summaries :
          currentBook[k].summaries[index].of[2] = index
    /\ \A id \in AppBookIds : \A index \in DOMAIN stored[id].summaries :
          stored[id].summaries[index].of[2] = index

\* the stored record of a book holds a summary made from a chapter of the
\* other book
C35_WitnessMisfiled ==
    \E id \in AppBookIds : \E index \in DOMAIN stored[id].summaries :
        stored[id].summaries[index].of[1] # id

\* C36: after any interleaving of saveBooksToGist calls of one or more
\* sessions of the user (find the gist by its description, then PATCH it if
\* found, else POST a new one) at most one SAGA gist exists, so all sessions
\* read and write the same gist
C36_AtMostOneGist == Len(gists) <= 1

\* C36, the part that holds: every save that found a gist writes the gist
\* that findSagaGist returns at that moment, and a gist is only created by a
\* call whose findSagaGist found none
C36_CreateOnlyWhenNoneFound ==
    [][Len(gists') > Len(gists) =>
          \E o \in OpIds : ops[o].pc = "write" /\ ops[o].gistId = 0
                           /\ ops'[o].pc = "done"]_vars

\* two SAGA gists exist, each created by a call of another session
C36_WitnessTwoGists ==
    /\ Len(gists) = 2
    /\ AllReturned
    /\ \A o \in OpIds : ops[o].gistId = 0 /\ ops[o].pc = "done"
    /\ ops["o1"].sess # ops["o2"].sess

(***************************************************************************)
(* One updateBook(book) on a gist that holds a saved library: getAllBooks, *)
(* the map over the books, saveBooksToGist.  The book may have the id of a *)
(* book of the library or an id that no book of it has.  library holds the *)
(* books that were saved, loaded what getAllBooks returned to updateBook,  *)
(* bundle the files of the gist.                                           *)
(***************************************************************************)
UpdateArgs == UNION {VersionsOf(b) : b \in 1..(MaxBooks + 1)}

\* a stored book with a null chapter, which cleanBookData removes
HoledBook(b) ==
    MakeBook(b, 3, FALSE, [summaries |-> {0, 2}, images |-> {2}, holes |-> {1}])

UpdateLibraries ==
    UNION {{L \in [1..n -> UNION {{LayoutSingle(b), LayoutChunked(b), HoledBook(b)} :
                                    b \in 1..MaxBooks}] :
                /\ \A j, k \in 1..n : j # k => L[j].id # L[k].id
                /\ Cardinality({k \in 1..n : IsChunked(L[k])}) <= 1} :
           n \in 0..MaxBooks}

InitUpdateBook ==
    /\ library \in UpdateLibraries
    /\ bundle = <<splitBooksIntoFiles(library)>>
    /\ loaded = <<>>
    /\ bookArg \in {<<b>> : b \in UpdateArgs}
    /\ cleanResult = <<>>
    /\ IdleParser /\ IdleStore /\ IdleApp /\ IdleGetFile
    /\ IdleTitle /\ IdleTransport /\ IdleMount

\* const books = await getAllBooks();
\* await saveBooksToGist(githubPAT, books.map(b => b.id === book.id ? book : b))
UpdateBook(books) ==
    /\ loaded = <<>>
    /\ loaded' = <<[ok |-> TRUE, books |-> books]>>
    /\ bundle' = <<PatchFiles(bundle[1],
                      splitBooksIntoFiles(UpdatedBooks(books, bookArg[1])))>>
    /\ UNCHANGED <<library, cleanVars, parserVars, storeVars, appVars, getFileVars,
                   titleVars, transportVars, mountVars>>

NextUpdateBook ==
    \E keys \in KeyOrders(bundle[1]) :
        UpdateBook(CleanAll(loadBooksFromGist(bundle[1], keys).books))

SpecUpdateBook == InitUpdateBook /\ [][NextUpdateBook]_vars

\* what getAllBooks returns from the gist, for each order of its keys
BooksNow ==
    {CleanAll(loadBooksFromGist(bundle[1], keys).books) :
        keys \in KeyOrders(bundle[1])}

\* C37: updateBook(b) changes only the stored record whose id is b.id: the
\* number of books, their ids and order, and the content of every other
\* book are the same before and after; if no stored book has the id of b
\* the library is left as it was (b is not inserted)
C37_UpdateBookFrame ==
    loaded # <<>> =>
        LET before == loaded[1].books
            b == bookArg[1]
        IN  \A after \in BooksNow :
              /\ Len(after) = Len(before)
              /\ \A k \in DOMAIN before :
                    /\ after[k].id = before[k].id
                    /\ before[k].id # b.id => after[k] = before[k]
              /\ (\A k \in DOMAIN before : before[k].id # b.id) => after = before

\* a library of two books of which the second was updated with a book of
\* other content: the first is as before
C37_Witness ==
    /\ loaded # <<>>
    /\ Len(loaded[1].books) = 2
    /\ loaded[1].books[2].id = bookArg[1].id
    /\ loaded[1].books[2] # bookArg[1]
    /\ \A after \in BooksNow : after[1] = loaded[1].books[1] /\ after[2] = bookArg[1]

\* the book that was not updated is stored with a null chapter, which
\* getAllBooks removed before and removes after
C37_WitnessCleaned ==
    /\ loaded # <<>>
    /\ Len(library) = 2
    /\ HasHole(library[1])
    /\ library[2].id = bookArg[1].id
    /\ \A after \in BooksNow : after[1] = cleanBookData(library[1])

\* updateBook with a book whose id no stored book has: nothing was inserted
C37_WitnessAbsent ==
    /\ loaded # <<>>
    /\ loaded[1].books # <<>>
    /\ \A k \in DOMAIN loaded[1].books : loaded[1].books[k].id # bookArg[1].id
    /\ BooksNow = {loaded[1].books}

====
